---- MODULE Spec2Model ----
(***************************************************************************)
(* Timing and synchronization core of sst-core.                            *)
(*                                                                         *)
(* The module models ThreadSyncSimpleSkip (threadSyncSimpleSkip.cc): the   *)
(* per-thread link queues, the three static barriers, the phases of        *)
(* execute() and the skip-ahead computation of nextSyncTime, together with *)
(* the run loop of each partition that feeds it.  It also models Clock     *)
(* (clock.cc) with the Activity Queue it is scheduled in, and the Barrier  *)
(* used back-to-back.                                                      *)
(***************************************************************************)
EXTENDS Integers, Sequences, FiniteSets, TLC

(***************************************************************************)
(* Bounds of the model.                                                    *)
(***************************************************************************)
NumThreads == 2
SimTimeBits == 4
InterThreadMinLatency == 2
MaxEvents == 2
MaxEpochs == 2
MaxWaits == 2
ClockPeriod == 2
MaxCycles == 3
MaxRegs == 2
MaxOthers == 1
MaxInserts == 3
MaxLinkCalls == 4
MaxAdds == 3
MaxRepeat == 2
MaxValue == 5
MaxLines == 3
MaxRuns == 2

(***************************************************************************)
(* Types.                                                                  *)
(***************************************************************************)
Threads == 0 .. (NumThreads - 1)

\* SimTime_t is an unsigned integer of SimTimeBits bits (64 in the build).
SimTimeModulus == 2 ^ SimTimeBits

MAX_SIMTIME_T == SimTimeModulus - 1

\* The delays of the links of the model: a link that crosses a partition
\* boundary has at least the inter-thread minimum latency.
CrossDelays == {InterThreadMinLatency, InterThreadMinLatency + 1}

LocalDelays == {1, InterThreadMinLatency + 1}

\* No event is created for delivery after this time.
MaxTime == 2 * InterThreadMinLatency + 1

Barriers == 0 .. 2

NoActivity == [id |-> 0, time |-> 0, orig |-> 0, src |-> 0, dst |-> 0]

VARIABLES
    pc,               \* where each thread is: its run loop or a point of execute()
    currentSimCycle,  \* sim->getCurrentSimCycle() of each thread
    timeVortex,       \* the Activity Queue of each thread
    queues,           \* queues[p][i]: the link queue of thread p's ThreadSync written by thread i
    nextSyncTime,     \* ThreadSyncSimpleSkip::nextSyncTime of each thread
    my_max_period,    \* ThreadSyncSimpleSkip::my_max_period of each thread
    qi, vj,           \* the loop indices i and j of before()
    barrier,          \* the three static barriers: count and generation
    myGen,            \* the generation a thread saw when it called wait()
    cur,              \* the Activity a thread's run loop is executing
    nextId,           \* the number of events created so far
    epochs,           \* the number of execute() calls each thread has returned from
    waitCalls,        \* waitCalls[p][b]: calls of barrier[b].wait() by thread p
    waitReturns,      \* waitReturns[p][b]: returns from barrier[b].wait() by thread p
    appended,         \* history: the events appended to queues[p][i], in order
    sent,             \* history: the ids before() sent from queues[p][i], in order
    cleared,          \* history: the ids queue->clear() removed from a link queue
    executed,         \* history: the ids of the Activities each thread's run loop has popped
    minAtStart,       \* history: the minimum next activity time when barrier[0] last released
    simTime,          \* sim->getCurrentSimCycle() of the partition the Clock lives in
    currentPriority,  \* sim->getCurrentPriority(): the priority of the Activity being executed
    activityQueue,    \* the Activity Queue the Clock is inserted in
    queueSeq,         \* the number of inserts into the Activity Queue so far
    otherCount,       \* the number of Activities other than the Clock inserted so far
    popped,           \* history: the Activities popped since the last insert
    currentCycle,     \* Clock::currentCycle
    staticHandlerMap, \* Clock::staticHandlerMap, in registration order
    scheduled,        \* Clock::scheduled
    clockPc,          \* "idle", or "pass" while Clock::execute walks the handlers
    sop_iter,         \* the position of sop_iter in staticHandlerMap
    regLog,           \* history: one record per registerHandler call, its invocations counted
    passStart,        \* history: staticHandlerMap when the last pass started
    passInvoked,      \* history: the entries invoked in the last pass, in order
    lastCall,         \* history: the last operation on the Clock and what it saw
    link_map,         \* ThreadSyncSimpleSkip::link_map of each thread: name -> Link
    delivery_info,    \* the delivery info of each Link
    linkState,        \* "open", or how finalizeLinkConfigurations() of the thread ended
    linkFatal,        \* the Link the fatal error of a thread's finalization reports
    regCalls,         \* history: the Links registered in link_map[p] under a name, in order
    handed,           \* history: handed[p][i]: the threads whose Link was given queues[i] of p
    constructed,      \* whether the ThreadSync of each thread has been constructed
    barrierSize,      \* the number of participants each static barrier is sized for
    barrierResizes,   \* history: the number of resize() calls on each static barrier
    m_minValue,       \* HistogramStatistic::m_minValue
    m_binWidth,       \* HistogramStatistic::m_binWidth
    m_numBins,        \* HistogramStatistic::m_numBins
    m_binsMap,        \* HistogramStatistic::m_binsMap: pairs of a bin start and its count
    m_itemsBinnedCount, \* HistogramStatistic::m_itemsBinnedCount
    m_OOBMinCount,    \* HistogramStatistic::m_OOBMinCount
    m_OOBMaxCount,    \* HistogramStatistic::m_OOBMaxCount
    m_totalSummed,    \* HistogramStatistic::m_totalSummed
    m_totalSummedSqr, \* HistogramStatistic::m_totalSummedSqr
    collectionCount,  \* the collection count of the Statistic
    addCalls,         \* the number of addData_impl_Ntimes calls so far
    cfgFile,          \* the lines of the configuration file at cfgPath
    displayed,        \* the numbered models the last listModels() printed
    elementsArray,    \* sstUnregisterMultiple: elementsArray
    elementsToRemove, \* sstUnregisterMultiple: elementsToRemove
    removeIndex,      \* sstUnregisterMultiple: the index i of its last loop
    regPc,            \* where sst-register is: "idle", "remove", "exited" or "fault"
    unregistered,     \* history: the elements the last run passed to sstUnregister
    runs              \* the number of runs of sst-register so far

syncVars == <<pc, currentSimCycle, timeVortex, queues, nextSyncTime, my_max_period, qi, vj,
              barrier, myGen, cur, nextId, epochs, waitCalls, waitReturns, appended, sent,
              cleared, executed, minAtStart>>

queueVars == <<activityQueue, queueSeq, otherCount, popped>>

clockVars == <<simTime, currentPriority, currentCycle, staticHandlerMap, scheduled, clockPc,
               sop_iter, regLog, passStart, passInvoked, lastCall>>

linkVars == <<link_map, delivery_info, linkState, linkFatal, regCalls, handed>>

startVars == <<constructed, barrierSize, barrierResizes>>

setupVars == <<linkVars, startVars>>

histVars == <<m_minValue, m_binWidth, m_numBins, m_binsMap, m_itemsBinnedCount, m_OOBMinCount,
              m_OOBMaxCount, m_totalSummed, m_totalSummedSqr, collectionCount, addCalls>>

registerVars == <<cfgFile, displayed, elementsArray, elementsToRemove, removeIndex, regPc,
                  unregistered, runs>>

toolVars == <<histVars, registerVars>>

vars == <<syncVars, queueVars, clockVars, setupVars, toolVars>>

(***************************************************************************)
(* Helpers.                                                                *)
(***************************************************************************)
MinOf(S) == CHOOSE x \in S : \A y \in S : x <= y

Times(p) == {a.time : a \in timeVortex[p]}

SeqIds(s) == [k \in 1 .. Len(s) |-> s[k].id]

SeqSet(s) == {s[k] : k \in 1 .. Len(s)}

\* Simulation_impl::getNextActivityTime of one thread.
NextActivityTime(p) == IF timeVortex[p] = {} THEN MAX_SIMTIME_T ELSE MinOf(Times(p))

\* Simulation_impl::getLocalMinimumNextActivityTime: the minimum over the
\* threads of this rank, the shared state every thread reads in after().
LocalMinimumNextActivityTime == MinOf({NextActivityTime(p) : p \in Threads})

(***************************************************************************)
(* Construction: ThreadSyncSimpleSkip::ThreadSyncSimpleSkip.  Every thread *)
(* gets num_threads empty link queues, the barriers are sized for          *)
(* num_threads, and nextSyncTime starts at the inter-thread minimum        *)
(* latency.  The run starts with one Activity at time zero, on thread 0.   *)
(***************************************************************************)
SyncConstructed ==
    /\ pc = [p \in Threads |-> "run"]
    /\ currentSimCycle = [p \in Threads |-> 0]
    /\ timeVortex = [p \in Threads |->
                        IF p = 0
                        THEN {[id |-> -1, time |-> 0, orig |-> 0, src |-> 0, dst |-> 0]}
                        ELSE {}]
    /\ queues = [p \in Threads |-> [i \in Threads |-> <<>>]]
    /\ my_max_period = [p \in Threads |-> InterThreadMinLatency]
    /\ nextSyncTime = [p \in Threads |-> InterThreadMinLatency]
    /\ qi = [p \in Threads |-> 0]
    /\ vj = [p \in Threads |-> 0]
    /\ barrier = [b \in Barriers |-> [count |-> 0, generation |-> 0]]
    /\ myGen = [p \in Threads |-> 0]
    /\ cur = [p \in Threads |-> NoActivity]
    /\ nextId = 0
    /\ epochs = [p \in Threads |-> 0]
    /\ waitCalls = [p \in Threads |-> [b \in Barriers |-> 0]]
    /\ waitReturns = [p \in Threads |-> [b \in Barriers |-> 0]]
    /\ appended = [p \in Threads |-> [i \in Threads |-> <<>>]]
    /\ sent = [p \in Threads |-> [i \in Threads |-> <<>>]]
    /\ cleared = {}
    /\ executed = [p \in Threads |-> {}]
    /\ minAtStart = 0

(***************************************************************************)
(* The Activity Queue of a partition: Activities ordered by delivery time, *)
(* then priority, then insertion sequence number.                          *)
(***************************************************************************)
\* The priority a Clock is constructed with, and the priorities of the
\* other Activities of the model: one that runs before a Clock at the same
\* time, one that ties with it, one that runs after it.
CLOCKPRIORITY == 40

Priorities == {CLOCKPRIORITY - 1, CLOCKPRIORITY, CLOCKPRIORITY + 1}

\* No Clock fires after this time.
ClockMaxTime == MaxCycles * ClockPeriod

\* The other Activities of the run with a Clock: off a period boundary and
\* on one, ahead of the Clock at the same time and behind it.
OtherTimes == {1, ClockPeriod, 2 * ClockPeriod}

OtherPriorities == {CLOCKPRIORITY - 1, CLOCKPRIORITY + 1}

\* Two handlers; each may be registered more than once.
Handlers == {1, 2}

\* An ordering that leaves the priority out.
ActivityLessNoPriority(a, b) ==
    \/ a.time < b.time
    \/ a.time = b.time /\ a.seq < b.seq

\* The ordering of the Activity Queue.
ActivityLess(a, b) ==
    \/ a.time < b.time
    \/ a.time = b.time /\ a.priority < b.priority
    \/ a.time = b.time /\ a.priority = b.priority /\ a.seq < b.seq

\* The Activity popMinimum() returns from a queue that is not empty.
Minimum(q) == CHOOSE a \in q : \A b \in q : b # a => ActivityLess(a, b)

\* insertActivity(time, activity): the Activity gets the next sequence number.
QueueInsert(time, priority, kind) ==
    /\ activityQueue' = activityQueue \cup
           {[time |-> time, priority |-> priority, seq |-> queueSeq + 1, kind |-> kind]}
    /\ queueSeq' = queueSeq + 1

QueueConstructed ==
    /\ activityQueue = {}
    /\ queueSeq = 0
    /\ otherCount = 0
    /\ popped = <<>>

\* Whether, and where, the Clock is in the Activity Queue.
ClockEntries == {a \in activityQueue : a.kind = "clock"}

ClockInQueue == ClockEntries # {}

(***************************************************************************)
(* Clock::Clock: cycle zero, no handler, not scheduled.                    *)
(***************************************************************************)
NoCall == [op |-> "none", now |-> 0, priority |-> 0, wasScheduled |-> FALSE,
           clockBefore |-> {}, lenBefore |-> 0, laterPending |-> FALSE, empty |-> FALSE]

ClockConstructed ==
    /\ simTime = 0
    /\ currentCycle = 0
    /\ staticHandlerMap = <<>>
    /\ scheduled = FALSE
    /\ clockPc = "idle"
    /\ sop_iter = 0
    /\ regLog = <<>>
    /\ passStart = <<>>
    /\ passInvoked = <<>>
    /\ lastCall = NoCall

(***************************************************************************)
(* The Links that cross a partition boundary.  Every name stands for one   *)
(* link between partitions; each partition holds its own Link object for   *)
(* it, the end <<p, name>>.                                                *)
(***************************************************************************)
LinkNameOrder == <<"A", "B">>

LinkNames == {LinkNameOrder[k] : k \in 1 .. Len(LinkNameOrder)}

Links == Threads \X LinkNames

NoLink == <<-1, "">>

\* The partition a Link object belongs to.
LinkOwner(l) == l[1]

\* After construction link_map is empty and no Link has delivery info.
LinksConstructed ==
    /\ link_map = [p \in Threads |-> [n \in LinkNames |-> NoLink]]
    /\ delivery_info = [l \in Links |-> NoLink]
    /\ linkState = [p \in Threads |-> "open"]
    /\ linkFatal = [p \in Threads |-> NoLink]
    /\ regCalls = [p \in Threads |-> [n \in LinkNames |-> <<>>]]
    /\ handed = [p \in Threads |-> [i \in Threads |-> {}]]

\* Once every thread has constructed its ThreadSync, the barriers have been
\* resized by the thread with id 0.
BarriersConstructed ==
    /\ constructed = [p \in Threads |-> TRUE]
    /\ barrierSize = [b \in Barriers |-> NumThreads]
    /\ barrierResizes = [b \in Barriers |-> 1]

SetupConstructed == LinksConstructed /\ BarriersConstructed

\* The constructor of the histogram: the parameters after their sanity fixes,
\* every count zero and no bin.  autoscale is false, so nothing is cached.
HistogramStatistic(minvalue, binwidth, numbins) ==
    /\ m_minValue = minvalue
    /\ m_binWidth = (IF binwidth = 0 THEN 1 ELSE IF binwidth < 0 THEN -binwidth ELSE binwidth)
    /\ m_numBins = (IF numbins = 0 THEN 1 ELSE numbins)
    /\ m_totalSummed = 0
    /\ m_totalSummedSqr = 0
    /\ m_OOBMinCount = 0
    /\ m_OOBMaxCount = 0
    /\ m_itemsBinnedCount = 0
    /\ m_binsMap = {}
    /\ collectionCount = 0
    /\ addCalls = 0

\* sst-register before it has run on a configuration file.
RegisterStart(file) ==
    /\ cfgFile = file
    /\ displayed = <<>>
    /\ elementsArray = <<>>
    /\ elementsToRemove = <<>>
    /\ removeIndex = 0
    /\ regPc = "idle"
    /\ unregistered = <<>>
    /\ runs = 0

ToolsConstructed == HistogramStatistic(0, 1, 1) /\ RegisterStart(<<>>)

Init ==
    /\ SyncConstructed
    /\ QueueConstructed
    /\ ClockConstructed
    /\ SetupConstructed
    /\ ToolsConstructed
    /\ currentPriority = CLOCKPRIORITY

(***************************************************************************)
(* The Activity Queue on its own: inserts and popMinimum() calls in any    *)
(* order.                                                                  *)
(***************************************************************************)
\* The delivery times inserted: Activities that tie on time, and that do not.
InsertTimes == {0, ClockPeriod}

InsertActivity(t, pr) ==
    /\ queueSeq < MaxInserts
    /\ QueueInsert(t, pr, "other")
    /\ popped' = <<>>
    /\ UNCHANGED <<otherCount, syncVars, clockVars, setupVars, toolVars>>

PopMinimum ==
    /\ activityQueue # {}
    /\ activityQueue' = activityQueue \ {Minimum(activityQueue)}
    /\ popped' = Append(popped, Minimum(activityQueue))
    /\ UNCHANGED <<queueSeq, otherCount, syncVars, clockVars, setupVars, toolVars>>

NextQueue ==
    \/ \E t \in InsertTimes, pr \in Priorities : InsertActivity(t, pr)
    \/ PopMinimum

SpecQueue == Init /\ [][NextQueue]_vars

(***************************************************************************)
(* Clock::schedule.                                                        *)
(***************************************************************************)
\* What registerHandler sees when it is called.
RegisterCall ==
    [op |-> "registerHandler", now |-> simTime, priority |-> currentPriority,
     wasScheduled |-> scheduled, clockBefore |-> ClockEntries,
     lenBefore |-> Len(staticHandlerMap),
     laterPending |-> \E a \in activityQueue :
                         a.kind = "other" /\ a.time = simTime /\ a.priority > CLOCKPRIORITY,
     empty |-> FALSE]

\* currentCycle = sim->getCurrentSimCycle() / period->getFactor()
scheduleCurrentCycle(now) == now \div ClockPeriod

\* The tie-break applied at time zero as well.
scheduleNextAtZero(now, priority) ==
    IF priority < CLOCKPRIORITY /\ now % ClockPeriod = 0
    THEN now
    ELSE scheduleCurrentCycle(now) * ClockPeriod + ClockPeriod

\* The next firing one period from now, not rounded to a period boundary.
scheduleNextNoRound(now, priority) ==
    IF priority < CLOCKPRIORITY /\ now # 0 /\ now % ClockPeriod = 0
    THEN now
    ELSE now + ClockPeriod

\* The delivery time schedule() inserts the Clock at, called at time `now`
\* while an Activity of the given priority is executing.
scheduleNext(now, priority) ==
    IF priority < CLOCKPRIORITY /\ now # 0 /\ now % ClockPeriod = 0
    THEN now
    ELSE scheduleCurrentCycle(now) * ClockPeriod + ClockPeriod

\* schedule() leaving the flag as it was.
scheduleScheduledNot == FALSE

\* scheduled = true
scheduleScheduled == TRUE

schedule ==
    /\ currentCycle' = scheduleCurrentCycle(simTime)
    /\ QueueInsert(scheduleNext(simTime, currentPriority), CLOCKPRIORITY, "clock")
    /\ scheduled' = scheduleScheduled

(***************************************************************************)
(* Clock::registerHandler and Clock::unregisterHandler, called by the      *)
(* Activity that is executing, or before the run starts.  Each entry of    *)
(* staticHandlerMap carries the number of the registration that made it.   *)
(***************************************************************************)
\* Handlers are told apart only by their identity, so the handlers are
\* numbered in the order of their first registration.
KnownHandler(h) == h = 1 \/ \E r \in 1 .. Len(regLog) : regLog[r].handler = h - 1

\* registerHandler calling schedule() whatever the flag.
registerSchedulesAlways(flag) == TRUE

\* if ( !scheduled ) schedule();
registerSchedules(flag) == ~flag

\* Called by the Activity that is executing, or before the run starts; not
\* from inside a pass of the Clock over its handlers.
registerHandler(h) ==
    /\ clockPc = "idle"
    /\ KnownHandler(h)
    /\ Len(regLog) < MaxRegs
    /\ staticHandlerMap' = Append(staticHandlerMap, [handler |-> h, reg |-> Len(regLog) + 1])
    /\ regLog' = Append(regLog, [handler |-> h, at |-> simTime, n |-> 0, cycle |-> 0,
                                   time |-> 0, done |-> FALSE, again |-> FALSE])
    /\ IF registerSchedules(scheduled)
       THEN schedule
       ELSE UNCHANGED <<currentCycle, activityQueue, queueSeq, scheduled>>
    /\ lastCall' = RegisterCall
    /\ UNCHANGED <<simTime, currentPriority, clockPc, sop_iter, passStart, passInvoked,
                   otherCount, popped, syncVars, setupVars, toolVars>>

\* vector::erase at position i.
EraseAt(map, i) == SubSeq(map, 1, i - 1) \o SubSeq(map, i + 1, Len(map))

\* The loop of unregisterHandler erasing every entry of the handler.
unregisterEraseAll(map, h) ==
    LET Other(e) == e.handler # h
    IN  SelectSeq(map, Other)

\* The loop of unregisterHandler: the first entry of the handler is erased.
unregisterErase(map, h) ==
    IF \E i \in 1 .. Len(map) : map[i].handler = h
    THEN EraseAt(map, MinOf({i \in 1 .. Len(map) : map[i].handler = h}))
    ELSE map

unregisterHandler(h) ==
    /\ clockPc = "idle"
    /\ KnownHandler(h)
    /\ staticHandlerMap' = unregisterErase(staticHandlerMap, h)
    /\ lastCall' = [NoCall EXCEPT !.op = "unregisterHandler",
                                   !.empty = (unregisterErase(staticHandlerMap, h) = <<>>)]
    /\ UNCHANGED <<simTime, currentPriority, currentCycle, scheduled, clockPc, sop_iter,
                   regLog, passStart, passInvoked, queueVars, syncVars, setupVars, toolVars>>

(***************************************************************************)
(* Clock::execute: the Clock is popped from the Activity Queue; with no    *)
(* handler it drops out, otherwise it counts the cycle and walks the       *)
(* handlers, one step per handler, and after the last one inserts itself   *)
(* one period ahead.                                                       *)
(***************************************************************************)
\* The idle Clock keeping its flag.
executeIdleScheduledKept == TRUE

\* scheduled = false, for the Clock that finds no handler.
executeIdleScheduled == FALSE

\* The cycle counter advanced by two.
executeCycleSkip(cycle) == cycle + 2

\* currentCycle++
executeCycle(cycle) == cycle + 1

\* The erase of the first entry, whichever handler asked to be removed.
executeEraseFirst(map, i, done) == IF done THEN EraseAt(map, 1) ELSE map

\* sop_iter = staticHandlerMap.erase(sop_iter), if the handler is done.
executeErase(map, i, done) == IF done THEN EraseAt(map, i) ELSE map

\* The iterator advanced after an erase as well.
executeAdvanceAlways(i, done) == i + 1

\* Where sop_iter points after the invocation: erase() has returned the
\* position of the next entry; otherwise ++sop_iter.
executeAdvance(i, done) == IF done THEN i ELSE i + 1

\* next = sim->getCurrentSimCycle() + period->getFactor()
executeNextTime(now) == now + ClockPeriod

execute ==
    /\ clockPc = "idle"
    /\ activityQueue # {}
    /\ Minimum(activityQueue).kind = "clock"
    /\ Minimum(activityQueue).time <= ClockMaxTime
    /\ activityQueue' = activityQueue \ {Minimum(activityQueue)}
    /\ simTime' = Minimum(activityQueue).time
    /\ currentPriority' = Minimum(activityQueue).priority
    /\ passStart' = staticHandlerMap
    /\ passInvoked' = <<>>
    /\ lastCall' = [NoCall EXCEPT !.op = "execute"]
    /\ IF staticHandlerMap = <<>>
       THEN /\ scheduled' = executeIdleScheduled
            /\ UNCHANGED <<currentCycle, clockPc, sop_iter>>
       ELSE /\ currentCycle' = executeCycle(currentCycle)
            /\ clockPc' = "pass"
            /\ sop_iter' = 1
            /\ UNCHANGED scheduled
    /\ UNCHANGED <<staticHandlerMap, regLog, queueSeq, otherCount, popped, syncVars, setupVars, toolVars>>

\* One iteration of the loop over the handlers; `done` is what the handler
\* returns.  After the last handler the Clock is inserted again.
executeHandler(done) ==
    /\ clockPc = "pass"
    /\ sop_iter <= Len(staticHandlerMap)
    /\ regLog' = [regLog EXCEPT ![staticHandlerMap[sop_iter].reg] =
                      [@ EXCEPT !.n = @ + 1, !.cycle = currentCycle, !.time = simTime,
                                !.done = done, !.again = regLog[staticHandlerMap[sop_iter].reg].done]]
    /\ passInvoked' = Append(passInvoked, staticHandlerMap[sop_iter])
    /\ staticHandlerMap' = executeErase(staticHandlerMap, sop_iter, done)
    /\ IF executeAdvance(sop_iter, done) <= Len(executeErase(staticHandlerMap, sop_iter, done))
       THEN /\ sop_iter' = executeAdvance(sop_iter, done)
            /\ UNCHANGED <<clockPc, activityQueue, queueSeq>>
       ELSE /\ sop_iter' = 0
            /\ clockPc' = "idle"
            /\ QueueInsert(executeNextTime(simTime), CLOCKPRIORITY, "clock")
    /\ UNCHANGED <<simTime, currentPriority, currentCycle, scheduled, passStart, lastCall,
                   otherCount, popped, syncVars, setupVars, toolVars>>

(***************************************************************************)
(* The rest of the partition's run loop: other Activities are inserted,    *)
(* and popped when they are the minimum of the Activity Queue.             *)
(***************************************************************************)
OtherInsert(t, pr) ==
    /\ clockPc = "idle"
    /\ otherCount < MaxOthers
    /\ t >= simTime
    /\ QueueInsert(t, pr, "other")
    /\ otherCount' = otherCount + 1
    /\ UNCHANGED <<popped, clockVars, syncVars, setupVars, toolVars>>

RunOther ==
    /\ clockPc = "idle"
    /\ activityQueue # {}
    /\ Minimum(activityQueue).kind = "other"
    /\ activityQueue' = activityQueue \ {Minimum(activityQueue)}
    /\ simTime' = Minimum(activityQueue).time
    /\ currentPriority' = Minimum(activityQueue).priority
    /\ UNCHANGED <<queueSeq, otherCount, popped, currentCycle, staticHandlerMap, scheduled,
                   clockPc, sop_iter, regLog, passStart, passInvoked, lastCall, syncVars, setupVars, toolVars>>

NextClock ==
    \/ \E h \in Handlers : registerHandler(h)
    \/ \E h \in Handlers : unregisterHandler(h)
    \/ execute
    \/ \E done \in BOOLEAN : executeHandler(done)
    \/ \E t \in OtherTimes, pr \in OtherPriorities : OtherInsert(t, pr)
    \/ RunOther

\* The priority the simulation starts with is not fixed by the Clock.
InitClock ==
    /\ SyncConstructed
    /\ QueueConstructed
    /\ ClockConstructed
    /\ SetupConstructed
    /\ ToolsConstructed
    /\ currentPriority \in OtherPriorities

SpecClock == InitClock /\ [][NextClock]_vars

\* The operations on the Clock alone, with no other Activity in the queue.
NextHandlers ==
    \/ \E h \in Handlers : registerHandler(h)
    \/ \E h \in Handlers : unregisterHandler(h)
    \/ execute
    \/ \E done \in BOOLEAN : executeHandler(done)

SpecHandlers == InitClock /\ [][NextHandlers]_vars

(***************************************************************************)
(* Core::ThreadSafe::Barrier::wait, in two steps: the call, which counts   *)
(* the caller in and, for the last of the participants, starts the next    *)
(* generation; and the return, once the generation has moved on.           *)
(***************************************************************************)
WaitPc(b) == <<"wait0", "wait1", "wait2">>[b + 1]

\* A barrier sized for one thread too few.
BarrierSizeShort == NumThreads - 1

\* barrier[i].resize(num_threads), by the thread with id 0.
BarrierSize == NumThreads

\* The call of barrier[b].wait() by thread p.
BarrierArrive(p, b) ==
    /\ myGen' = [myGen EXCEPT ![p] = barrier[b].generation]
    /\ barrier' = [barrier EXCEPT ![b] =
                      IF @.count + 1 = BarrierSize
                      THEN [count |-> 0, generation |-> @.generation + 1]
                      ELSE [count |-> @.count + 1, generation |-> @.generation]]
    /\ pc' = [pc EXCEPT ![p] = WaitPc(b)]
    /\ waitCalls' = [waitCalls EXCEPT ![p][b] = @ + 1]
    /\ minAtStart' = IF b = 0 /\ barrier[b].count + 1 = BarrierSize
                     THEN LocalMinimumNextActivityTime
                     ELSE minAtStart

\* A barrier that releases on its count alone, with no generation.
BarrierReleasedByCount(p, b) == barrier[b].count = 0

\* Whether thread p, blocked in barrier[b].wait(), may return.
BarrierReleased(p, b) == barrier[b].generation # myGen[p]

(***************************************************************************)
(* ThreadSyncSimpleSkip::execute: the order of its five statements.  The   *)
(* argument is the point the thread has just passed; the result is the     *)
(* statement it runs next: a wait on one of the barriers, before(),        *)
(* after(), or the return to the run loop.                                 *)
(***************************************************************************)
\* execute() without its first wait: before() is entered at once.
executeNextNoBarrier0(at) ==
    CASE at = "enter" -> "before"
      [] at = "ret0" -> "before"
      [] at = "beforeDone" -> "wait1"
      [] at = "ret1" -> "after"
      [] at = "afterDone" -> "wait2"
      [] at = "ret2" -> "run"

\* execute() without its last wait: it returns right after after().
executeNextNoBarrier2(at) ==
    CASE at = "enter" -> "wait0"
      [] at = "ret0" -> "before"
      [] at = "beforeDone" -> "wait1"
      [] at = "ret1" -> "after"
      [] at = "afterDone" -> "run"
      [] at = "ret2" -> "run"

\* execute() without its second wait: after() is entered right after before().
executeNextNoBarrier1(at) ==
    CASE at = "enter" -> "wait0"
      [] at = "ret0" -> "before"
      [] at = "beforeDone" -> "after"
      [] at = "ret1" -> "after"
      [] at = "afterDone" -> "wait2"
      [] at = "ret2" -> "run"

executeNext(at) ==
    CASE at = "enter" -> "wait0"
      [] at = "ret0" -> "before"
      [] at = "beforeDone" -> "wait1"
      [] at = "ret1" -> "after"
      [] at = "afterDone" -> "wait2"
      [] at = "ret2" -> "run"

\* Thread p, having passed the point `at` of execute(), goes on to the next
\* statement; a wait() is called at once.
Proceed(p, at) ==
    LET n == executeNext(at)
    IN  /\ IF \E b \in Barriers : n = WaitPc(b)
           THEN BarrierArrive(p, CHOOSE b \in Barriers : n = WaitPc(b))
           ELSE /\ pc' = [pc EXCEPT ![p] = n]
                /\ UNCHANGED <<barrier, myGen, waitCalls, minAtStart>>
        /\ epochs' = [epochs EXCEPT ![p] = IF n = "run" THEN @ + 1 ELSE @]

\* The return of thread p from barrier[b].wait().
BarrierReturn(p, b) ==
    /\ pc[p] = WaitPc(b)
    /\ BarrierReleased(p, b)
    /\ Proceed(p, <<"ret0", "ret1", "ret2">>[b + 1])
    /\ waitReturns' = [waitReturns EXCEPT ![p][b] = @ + 1]
    /\ UNCHANGED <<qi, vj, currentSimCycle, timeVortex, queues, nextSyncTime, my_max_period,
                   cur, nextId, appended, sent, cleared, executed>>
    /\ UNCHANGED <<queueVars, clockVars, setupVars, toolVars>>

(***************************************************************************)
(* The Barrier on its own: every thread calls wait() on a barrier and, as  *)
(* soon as it has returned, may call wait() again, on the same barrier or  *)
(* on another one, with nothing in between.                                *)
(***************************************************************************)
BackToBackWait(p, b) ==
    /\ pc[p] = "run"
    /\ waitCalls[p][b] < MaxWaits
    /\ BarrierArrive(p, b)
    /\ UNCHANGED <<currentSimCycle, timeVortex, queues, nextSyncTime, my_max_period, qi, vj,
                   cur, nextId, epochs, waitReturns, appended, sent, cleared, executed>>
    /\ UNCHANGED <<queueVars, clockVars, setupVars, toolVars>>

BackToBackReturn(p, b) ==
    /\ pc[p] = WaitPc(b)
    /\ BarrierReleased(p, b)
    /\ pc' = [pc EXCEPT ![p] = "run"]
    /\ waitReturns' = [waitReturns EXCEPT ![p][b] = @ + 1]
    /\ UNCHANGED <<currentSimCycle, timeVortex, queues, nextSyncTime, my_max_period, qi, vj,
                   barrier, myGen, cur, nextId, epochs, waitCalls, appended, sent, cleared,
                   executed, minAtStart>>
    /\ UNCHANGED <<queueVars, clockVars, setupVars, toolVars>>

NextBarrier ==
    \/ \E p \in Threads, b \in Barriers : BackToBackWait(p, b)
    \/ \E p \in Threads, b \in Barriers : BackToBackReturn(p, b)

(***************************************************************************)
(* The run loop of a partition: pop the minimum Activity and execute it.   *)
(* The ThreadSync fires at nextSyncTime, ahead of the Activities of that   *)
(* time.                                                                   *)
(***************************************************************************)
RunActivity(p) ==
    /\ pc[p] = "run"
    /\ \E a \in timeVortex[p] :
          /\ a.time = NextActivityTime(p)
          /\ a.time < nextSyncTime[p]
          /\ timeVortex' = [timeVortex EXCEPT ![p] = @ \ {a}]
          /\ currentSimCycle' = [currentSimCycle EXCEPT ![p] = a.time]
          /\ cur' = [cur EXCEPT ![p] = a]
          /\ executed' = [executed EXCEPT ![p] = @ \cup {a.id}]
    /\ UNCHANGED <<qi, vj, pc, queues, nextSyncTime, my_max_period, barrier, myGen, nextId,
                   epochs, waitCalls, waitReturns, appended, sent, cleared, minAtStart>>
    /\ UNCHANGED <<queueVars, clockVars, setupVars, toolVars>>

\* Link::send of an Activity whose handler runs on thread p, to a link of
\* the same partition: it goes into the Activity Queue directly.
SendLocal(p, d) ==
    /\ pc[p] = "run"
    /\ cur[p] # NoActivity
    /\ nextId < MaxEvents
    /\ currentSimCycle[p] + d <= MaxTime
    /\ LET t == (currentSimCycle[p] + d) % SimTimeModulus
           ev == [id |-> nextId + 1, time |-> t, orig |-> t, src |-> p, dst |-> p]
       IN  timeVortex' = [timeVortex EXCEPT ![p] = @ \cup {ev}]
    /\ nextId' = nextId + 1
    /\ UNCHANGED <<qi, vj, pc, currentSimCycle, queues, nextSyncTime, my_max_period, barrier,
                   myGen, cur, epochs, waitCalls, waitReturns, appended, sent, cleared,
                   executed, minAtStart>>
    /\ UNCHANGED <<queueVars, clockVars, setupVars, toolVars>>

\* Link::send across a partition boundary: the event is appended to the
\* queue registerRemoteLink(p, ...) of thread q's ThreadSync returned.
\* The latency of such a link is at least the inter-thread minimum latency.
SendCross(p, q, d) ==
    /\ pc[p] = "run"
    /\ cur[p] # NoActivity
    /\ q # p
    /\ d >= my_max_period[p]
    /\ nextId < MaxEvents
    /\ currentSimCycle[p] + d <= MaxTime
    /\ LET t == (currentSimCycle[p] + d) % SimTimeModulus
           ev == [id |-> nextId + 1, time |-> t, orig |-> t, src |-> p, dst |-> q]
       IN  /\ queues' = [queues EXCEPT ![q][p] = Append(@, ev)]
           /\ appended' = [appended EXCEPT ![q][p] = Append(@, ev)]
    /\ nextId' = nextId + 1
    /\ UNCHANGED <<qi, vj, pc, currentSimCycle, timeVortex, nextSyncTime, my_max_period,
                   barrier, myGen, cur, epochs, waitCalls, waitReturns, sent, cleared,
                   executed, minAtStart>>
    /\ UNCHANGED <<queueVars, clockVars, setupVars, toolVars>>

\* The ThreadSync is the next Activity of thread p: simulated time moves to
\* nextSyncTime and execute() is entered.
SyncFire(p) ==
    /\ pc[p] = "run"
    /\ epochs[p] < MaxEpochs
    /\ NextActivityTime(p) >= nextSyncTime[p]
    /\ currentSimCycle' = [currentSimCycle EXCEPT ![p] = nextSyncTime[p]]
    /\ cur' = [cur EXCEPT ![p] = NoActivity]
    /\ Proceed(p, "enter")
    /\ UNCHANGED <<qi, vj, timeVortex, queues, nextSyncTime, my_max_period, nextId,
                   waitReturns, appended, sent, cleared, executed>>
    /\ UNCHANGED <<queueVars, clockVars, setupVars, toolVars>>

(***************************************************************************)
(* ThreadSyncSimpleSkip::before, one step per iteration of its inner loop *)
(* and one per queue->clear().                                             *)
(***************************************************************************)
\* Link::send(delay, ev) on the delivery link of thread p: the event enters
\* thread p's Activity Queue at the current cycle plus the delay.
DeliveryLinkSend(p, delay, ev) ==
    [ev EXCEPT !.time = (currentSimCycle[p] + delay) % SimTimeModulus]

\* The inner loop stopping one event short (j < vec.size() - 1).
beforeInnerLoopShort(vec) == SubSeq(vec, 1, Len(vec) - 1)

\* The inner loop running from the back of vec to its front.
beforeInnerLoopReversed(vec) == [k \in 1 .. Len(vec) |-> vec[Len(vec) + 1 - k]]

\* The inner loop over vec: the events it sends, in the order it sends them.
beforeInnerLoop(vec) == vec

\* The delivery time taken for the delay, the current cycle not subtracted.
beforeDelayAbsolute(p, ev) == ev.time

\* The delay before() computes for an event.
beforeDelay(p, ev) == (ev.time - currentSimCycle[p]) % SimTimeModulus

\* An outer-loop iteration that does not clear the queue.
beforeQueueNoClear(vec) == vec

\* What the end of an outer-loop iteration leaves in the queue: queue->clear().
beforeQueueClear(vec) == <<>>

\* The body of the inner loop: vec[j] is sent on its delivery link with its
\* delay recomputed against the current cycle.
beforeSend(p) ==
    /\ pc[p] = "before"
    /\ vj[p] < Len(beforeInnerLoop(queues[p][qi[p]]))
    /\ LET ev == beforeInnerLoop(queues[p][qi[p]])[vj[p] + 1]
       IN  /\ timeVortex' = [timeVortex EXCEPT ![p] =
                                @ \cup {DeliveryLinkSend(p, beforeDelay(p, ev), ev)}]
           /\ sent' = [sent EXCEPT ![p][qi[p]] = Append(@, ev.id)]
    /\ vj' = [vj EXCEPT ![p] = @ + 1]
    /\ UNCHANGED <<pc, currentSimCycle, queues, nextSyncTime, my_max_period, qi, barrier,
                   myGen, cur, nextId, epochs, waitCalls, waitReturns, appended, cleared,
                   executed, minAtStart>>
    /\ UNCHANGED <<queueVars, clockVars, setupVars, toolVars>>

\* The end of the inner loop: queue->clear(), then the next queue, or the
\* return from before() after the last one.
beforeClear(p) ==
    /\ pc[p] = "before"
    /\ vj[p] >= Len(beforeInnerLoop(queues[p][qi[p]]))
    /\ queues' = [queues EXCEPT ![p][qi[p]] = beforeQueueClear(@)]
    /\ cleared' = cleared \cup
           {e.id : e \in SeqSet(queues[p][qi[p]]) \ SeqSet(beforeQueueClear(queues[p][qi[p]]))}
    /\ vj' = [vj EXCEPT ![p] = 0]
    /\ IF qi[p] + 1 < NumThreads
       THEN /\ qi' = [qi EXCEPT ![p] = @ + 1]
            /\ UNCHANGED <<pc, barrier, myGen, waitCalls, epochs, minAtStart>>
       ELSE /\ qi' = [qi EXCEPT ![p] = 0]
            /\ Proceed(p, "beforeDone")
    /\ UNCHANGED <<currentSimCycle, timeVortex, nextSyncTime, my_max_period, cur, nextId,
                   waitReturns, appended, sent, executed>>
    /\ UNCHANGED <<queueVars, clockVars, setupVars, toolVars>>

(***************************************************************************)
(* ThreadSyncSimpleSkip::after.                                            *)
(***************************************************************************)
\* after() without the comparison: the sum is taken even when it wrapped.
afterNextSyncTimeNoGuard(nextmin, period) == (nextmin + period) % SimTimeModulus

\* after() skipping two periods ahead.
afterNextSyncTimeTwice(nextmin, period) ==
    LET nextminPlus == (nextmin + 2 * period) % SimTimeModulus
    IN  IF nextmin > nextminPlus THEN nextmin ELSE nextminPlus

\* after() with the period left out of the sum.
afterNextSyncTimeNoPeriod(nextmin, period) == nextmin

\* The value after() gives nextSyncTime for a minimum next activity time.
afterNextSyncTime(nextmin, period) ==
    LET nextminPlus == (nextmin + period) % SimTimeModulus
    IN  IF nextmin > nextminPlus THEN nextmin ELSE nextminPlus

\* after() reading the next activity time of its own thread only.
afterOwnQueue(p) ==
    /\ pc[p] = "after"
    /\ nextSyncTime' = [nextSyncTime EXCEPT ![p] =
                           afterNextSyncTime(NextActivityTime(p), my_max_period[p])]
    /\ Proceed(p, "afterDone")
    /\ UNCHANGED <<qi, vj, currentSimCycle, timeVortex, queues, my_max_period, cur, nextId,
                   waitReturns, appended, sent, cleared, executed>>
    /\ UNCHANGED <<queueVars, clockVars, setupVars, toolVars>>

after(p) ==
    /\ pc[p] = "after"
    /\ nextSyncTime' = [nextSyncTime EXCEPT ![p] =
                           afterNextSyncTime(LocalMinimumNextActivityTime, my_max_period[p])]
    /\ Proceed(p, "afterDone")
    /\ UNCHANGED <<qi, vj, currentSimCycle, timeVortex, queues, my_max_period, cur, nextId,
                   waitReturns, appended, sent, cleared, executed>>
    /\ UNCHANGED <<queueVars, clockVars, setupVars, toolVars>>

(***************************************************************************)
(* ThreadSyncSimpleSkip::getDataSize.                                      *)
(***************************************************************************)
getDataSize(p) ==
    LET count == 0
    IN  count

(***************************************************************************)
(* The specification.                                                      *)
(***************************************************************************)
Next ==
    \/ \E p \in Threads : RunActivity(p)
    \/ \E p \in Threads, d \in LocalDelays : SendLocal(p, d)
    \/ \E p \in Threads, q \in Threads, d \in CrossDelays : SendCross(p, q, d)
    \/ \E p \in Threads : SyncFire(p)
    \/ \E p \in Threads, b \in Barriers : BarrierReturn(p, b)
    \/ \E p \in Threads : beforeSend(p)
    \/ \E p \in Threads : beforeClear(p)
    \/ \E p \in Threads : after(p)

Spec == Init /\ [][Next]_vars

\* The steps of the thread of partition p: its run loop and its execute().
ThreadStep(p) ==
    \/ RunActivity(p)
    \/ SyncFire(p)
    \/ \E b \in Barriers : BarrierReturn(p, b)
    \/ beforeSend(p)
    \/ beforeClear(p)
    \/ after(p)

\* The first event of a run is sent across a partition boundary.
SendCrossFirst(p, q, d) ==
    /\ nextId = 0
    /\ SendCross(p, q, d)

\* The epochs of a run with no other event than that one.
NextEpochs ==
    \/ \E p \in Threads : RunActivity(p)
    \/ \E p \in Threads, q \in Threads, d \in CrossDelays : SendCrossFirst(p, q, d)
    \/ \E p \in Threads : SyncFire(p)
    \/ \E p \in Threads, b \in Barriers : BarrierReturn(p, b)
    \/ \E p \in Threads : beforeSend(p)
    \/ \E p \in Threads : beforeClear(p)
    \/ \E p \in Threads : after(p)

\* The run under fair scheduling: a thread that can take a step is
\* eventually scheduled.
SpecFair == Init /\ [][NextEpochs]_vars /\ \A p \in Threads : WF_vars(ThreadStep(p))

\* The barriers used back-to-back.
SpecBarrier == Init /\ [][NextBarrier]_vars

\* A partition stops for good: its run loop, its before() or its after()
\* never gets to the next wait().
Halt(p) ==
    /\ pc[p] \in {"run", "before", "after"}
    /\ pc' = [pc EXCEPT ![p] = "halted"]
    /\ UNCHANGED <<currentSimCycle, timeVortex, queues, nextSyncTime, my_max_period, qi, vj,
                   barrier, myGen, cur, nextId, epochs, waitCalls, waitReturns, appended,
                   sent, cleared, executed, minAtStart>>
    /\ UNCHANGED <<queueVars, clockVars, setupVars, toolVars>>

NextHalt ==
    \/ Next
    \/ \E p \in Threads : Halt(p)

\* The run in which partitions may stop.
SpecHalt == Init /\ [][NextHalt]_vars

(***************************************************************************)
(* Start-up: every thread constructs its ThreadSyncSimpleSkip, in any      *)
(* order; the thread with id 0 sizes the three static barriers.  The run   *)
(* loops begin once every partition has been constructed.                  *)
(***************************************************************************)
\* Before any constructor has run: the static barriers are sized for no
\* participant and no ThreadSync has queues.
InitStartup ==
    /\ pc = [p \in Threads |-> "new"]
    /\ currentSimCycle = [p \in Threads |-> 0]
    /\ timeVortex = [p \in Threads |->
                        IF p = 0
                        THEN {[id |-> -1, time |-> 0, orig |-> 0, src |-> 0, dst |-> 0]}
                        ELSE {}]
    /\ queues = [p \in Threads |-> <<>>]
    /\ my_max_period = [p \in Threads |-> 0]
    /\ nextSyncTime = [p \in Threads |-> 0]
    /\ qi = [p \in Threads |-> 0]
    /\ vj = [p \in Threads |-> 0]
    /\ barrier = [b \in Barriers |-> [count |-> 0, generation |-> 0]]
    /\ myGen = [p \in Threads |-> 0]
    /\ cur = [p \in Threads |-> NoActivity]
    /\ nextId = 0
    /\ epochs = [p \in Threads |-> 0]
    /\ waitCalls = [p \in Threads |-> [b \in Barriers |-> 0]]
    /\ waitReturns = [p \in Threads |-> [b \in Barriers |-> 0]]
    /\ appended = [p \in Threads |-> [i \in Threads |-> <<>>]]
    /\ sent = [p \in Threads |-> [i \in Threads |-> <<>>]]
    /\ cleared = {}
    /\ executed = [p \in Threads |-> {}]
    /\ minAtStart = 0
    /\ QueueConstructed
    /\ ClockConstructed
    /\ currentPriority = CLOCKPRIORITY
    /\ LinksConstructed
    /\ ToolsConstructed
    /\ constructed = [p \in Threads |-> FALSE]
    /\ barrierSize = [b \in Barriers |-> 0]
    /\ barrierResizes = [b \in Barriers |-> 0]

\* A constructor that resizes the barriers whatever its thread.
constructorResizesAll(thread) == TRUE

\* Whether the constructor of a thread resizes the static barriers.
constructorResizes(thread) == thread = 0

\* ThreadSyncSimpleSkip::ThreadSyncSimpleSkip of thread p.
ThreadSyncSimpleSkip(p) ==
    /\ pc[p] = "new"
    /\ ~constructed[p]
    /\ queues' = [queues EXCEPT ![p] = [i \in Threads |-> <<>>]]
    /\ IF constructorResizes(p)
       THEN /\ barrierSize' = [b \in Barriers |-> NumThreads]
            /\ barrierResizes' = [b \in Barriers |-> barrierResizes[b] + 1]
       ELSE UNCHANGED <<barrierSize, barrierResizes>>
    /\ my_max_period' = [my_max_period EXCEPT ![p] = InterThreadMinLatency]
    /\ nextSyncTime' = [nextSyncTime EXCEPT ![p] = InterThreadMinLatency]
    /\ constructed' = [constructed EXCEPT ![p] = TRUE]
    /\ UNCHANGED <<pc, currentSimCycle, timeVortex, qi, vj, barrier, myGen, cur, nextId,
                   epochs, waitCalls, waitReturns, appended, sent, cleared, executed,
                   minAtStart>>
    /\ UNCHANGED <<queueVars, clockVars, linkVars, toolVars>>

\* Thread p begins its run loop: no partition does before every partition
\* has been constructed.
StartRun(p) ==
    /\ pc[p] = "new"
    /\ \A q \in Threads : constructed[q]
    /\ pc' = [pc EXCEPT ![p] = "run"]
    /\ UNCHANGED <<currentSimCycle, timeVortex, queues, nextSyncTime, my_max_period, qi, vj,
                   barrier, myGen, cur, nextId, epochs, waitCalls, waitReturns, appended,
                   sent, cleared, executed, minAtStart>>
    /\ UNCHANGED <<queueVars, clockVars, setupVars, toolVars>>

NextStartup ==
    \/ \E p \in Threads : ThreadSyncSimpleSkip(p)
    \/ \E p \in Threads : StartRun(p)
    \/ Next

\* The run from before the construction of the ThreadSyncs.
SpecStartup == InitStartup /\ [][NextStartup]_vars

(***************************************************************************)
(* Link registration: ThreadSyncSimpleSkip::registerLink,                  *)
(* registerRemoteLink and finalizeLinkConfigurations.  A partition         *)
(* registers its own end of a link with registerLink on its own            *)
(* ThreadSync, and with registerRemoteLink on the ThreadSync of the other  *)
(* partition.                                                              *)
(***************************************************************************)
\* The registrations and finalizations made so far.
LinkCallCount ==
    Cardinality({c \in Threads \X LinkNames \X (1 .. MaxLinkCalls) :
                    c[3] <= Len(regCalls[c[1]][c[2]])})
    + Cardinality({p \in Threads : linkState[p] # "open"})

\* A fatal error stops the whole run.
NoFatal == \A p \in Threads : linkState[p] # "fatal"

\* ThreadSync::setLinkDeliveryInfo(link, info): the Link's delivery info
\* becomes the handle of the remote Link.
setLinkDeliveryInfo(info, link, remote) == [info EXCEPT ![link] = remote]

\* registerLink setting the delivery info of the stored Link instead.
registerLinkStoredWired(map, info, name, link) ==
    IF map[name] = NoLink
    THEN [map |-> [map EXCEPT ![name] = link], info |-> info]
    ELSE [map |-> [map EXCEPT ![name] = NoLink],
          info |-> setLinkDeliveryInfo(info, map[name], link)]

\* registerLink that keeps the entry it has matched.
registerLinkNoErase(map, info, name, link) ==
    IF map[name] = NoLink
    THEN [map |-> [map EXCEPT ![name] = link], info |-> info]
    ELSE [map |-> map, info |-> setLinkDeliveryInfo(info, link, map[name])]

\* What registerLink(name, link) makes of one link_map and the delivery info.
registerLinkOn(map, info, name, link) ==
    IF map[name] = NoLink
    THEN [map |-> [map EXCEPT ![name] = link], info |-> info]
    ELSE [map |-> [map EXCEPT ![name] = NoLink],
          info |-> setLinkDeliveryInfo(info, link, map[name])]

\* registerRemoteLink with the two Links of setLinkDeliveryInfo exchanged.
registerRemoteLinkSwapped(map, info, name, link) ==
    IF map[name] = NoLink
    THEN [map |-> [map EXCEPT ![name] = link], info |-> info]
    ELSE [map |-> [map EXCEPT ![name] = NoLink],
          info |-> setLinkDeliveryInfo(info, link, map[name])]

\* What registerRemoteLink(tid, name, link) makes of them.
registerRemoteLinkOn(map, info, name, link) ==
    IF map[name] = NoLink
    THEN [map |-> [map EXCEPT ![name] = link], info |-> info]
    ELSE [map |-> [map EXCEPT ![name] = NoLink],
          info |-> setLinkDeliveryInfo(info, map[name], link)]

\* registerRemoteLink returning the queue of the ThreadSync's own thread.
registerRemoteLinkQueueOwn(thread, tid) == thread

\* The index of the queue registerRemoteLink(tid, ...) returns: queues[tid].
registerRemoteLinkQueue(thread, tid) == tid

registerLink(p, name, link) ==
    /\ linkState[p] = "open"
    /\ NoFatal
    /\ LinkCallCount < MaxLinkCalls
    /\ LET r == registerLinkOn(link_map[p], delivery_info, name, link)
       IN  /\ link_map' = [link_map EXCEPT ![p] = r.map]
           /\ delivery_info' = r.info
    /\ regCalls' = [regCalls EXCEPT ![p][name] = Append(@, link)]
    /\ UNCHANGED <<linkState, linkFatal, handed, startVars, syncVars, queueVars, clockVars, toolVars>>

registerRemoteLink(p, tid, name, link) ==
    /\ linkState[p] = "open"
    /\ NoFatal
    /\ LinkCallCount < MaxLinkCalls
    /\ LET r == registerRemoteLinkOn(link_map[p], delivery_info, name, link)
       IN  /\ link_map' = [link_map EXCEPT ![p] = r.map]
           /\ delivery_info' = r.info
    /\ regCalls' = [regCalls EXCEPT ![p][name] = Append(@, link)]
    /\ handed' = [handed EXCEPT ![p][registerRemoteLinkQueue(p, tid)] =
                     @ \cup {LinkOwner(link)}]
    /\ UNCHANGED <<linkState, linkFatal, startVars, syncVars, queueVars, clockVars, toolVars>>

\* A finalization that looks at no entry.
finalizeVisitedNone(map) == <<>>

\* The Links finalizeLinkConfigurations() passes to finalizeConfiguration():
\* those of the entries left in link_map, in the order of their names.
finalizeVisited(map) ==
    LET Left(n) == map[n] # NoLink
        names == SelectSeq(LinkNameOrder, Left)
    IN  [k \in 1 .. Len(names) |-> map[names[k]]]

\* ThreadSync::finalizeConfiguration(link) for a Link left without a remote
\* counterpart: the fatal UnmatchedLinkError, which reports the Link.
finalizeConfiguration(p, link) ==
    /\ linkState' = [linkState EXCEPT ![p] = "fatal"]
    /\ linkFatal' = [linkFatal EXCEPT ![p] = link]

finalizeLinkConfigurations(p) ==
    /\ linkState[p] = "open"
    /\ NoFatal
    /\ LinkCallCount < MaxLinkCalls
    /\ IF finalizeVisited(link_map[p]) = <<>>
       THEN /\ linkState' = [linkState EXCEPT ![p] = "finalized"]
            /\ UNCHANGED linkFatal
       ELSE finalizeConfiguration(p, finalizeVisited(link_map[p])[1])
    /\ UNCHANGED <<link_map, delivery_info, regCalls, handed, startVars, syncVars,
                   queueVars, clockVars, toolVars>>

NextLinks ==
    \/ \E p \in Threads, n \in LinkNames : registerLink(p, n, <<p, n>>)
    \/ \E p \in Threads, n \in LinkNames :
          \E tid \in Threads \ {p} : registerRemoteLink(p, tid, n, <<tid, n>>)
    \/ \E p \in Threads : finalizeLinkConfigurations(p)

\* The wire-up of the links and its finalization.
SpecLinks == Init /\ [][NextLinks]_vars

(***************************************************************************)
(* The histogram statistic: a HistogramStatistic over an integer           *)
(* BinDataType that is not autoscaling, so that m_caching is false and     *)
(* addData_impl_Ntimes never takes the Cache() path.                       *)
(***************************************************************************)
\* The parameters a histogram is constructed with.
MinValues == 0 .. 1

BinWidths == 0 .. 2

NumBins == 0 .. 2

\* The values added, below, inside and above the range of every histogram.
Values == 0 .. MaxValue

Repeats == 0 .. MaxRepeat

getBinsMinValue == m_minValue

getBinsMaxValue == (m_binWidth * m_numBins) + m_minValue

getItemsBinnedCount == m_itemsBinnedCount

getStatCollectionCount == collectionCount

\* The start of the bin a value falls in: index = floor(delta / m_binWidth).
BinStart(value) == m_minValue + ((value - m_minValue) \div m_binWidth) * m_binWidth

\* m_binsMap.find(bin_start) finds a bin.
BinFound(bin_start) == \E b \in m_binsMap : b[1] = bin_start

\* The bin is created with count N, or its count grows by N.
BinsAdd(bin_start, N) ==
    IF BinFound(bin_start)
    THEN {IF b[1] = bin_start THEN <<b[1], b[2] + N>> ELSE b : b \in m_binsMap}
    ELSE m_binsMap \cup {<<bin_start, N>>}

addData_impl_Ntimes(N, value) ==
    /\ addCalls < MaxAdds
    /\ addCalls' = addCalls + 1
    /\ IF value < getBinsMinValue
       THEN /\ m_OOBMinCount' = m_OOBMinCount + N
            /\ UNCHANGED <<m_OOBMaxCount, m_totalSummed, m_totalSummedSqr, m_itemsBinnedCount,
                           collectionCount, m_binsMap>>
       ELSE IF value > getBinsMaxValue
       THEN /\ m_OOBMaxCount' = m_OOBMaxCount + N
            /\ UNCHANGED <<m_OOBMinCount, m_totalSummed, m_totalSummedSqr, m_itemsBinnedCount,
                           collectionCount, m_binsMap>>
       ELSE /\ m_totalSummed' = m_totalSummed + N * value
            /\ m_totalSummedSqr' = m_totalSummedSqr + N * (value * value)
            /\ m_itemsBinnedCount' = m_itemsBinnedCount + 1
            /\ collectionCount' = collectionCount + N
            /\ m_binsMap' = BinsAdd(BinStart(value), N)
            /\ UNCHANGED <<m_OOBMinCount, m_OOBMaxCount>>
    /\ UNCHANGED <<m_minValue, m_binWidth, m_numBins, registerVars, syncVars, queueVars,
                   clockVars, setupVars>>

NextHistogram == \E N \in Repeats, value \in Values : addData_impl_Ntimes(N, value)

InitHistogram ==
    /\ SyncConstructed
    /\ QueueConstructed
    /\ ClockConstructed
    /\ SetupConstructed
    /\ currentPriority = CLOCKPRIORITY
    /\ \E minvalue \in MinValues, binwidth \in BinWidths, numbins \in NumBins :
          HistogramStatistic(minvalue, binwidth, numbins)
    /\ RegisterStart(<<>>)

\* Values added to a histogram of any of the parameters.
SpecHistogram == InitHistogram /\ [][NextHistogram]_vars

(***************************************************************************)
(* sst-register: the configuration file is a sequence of lines, a section  *)
(* header "[name]" or a "key=value" line.  The -m command lists the        *)
(* models with a number each and unregisters those whose numbers are       *)
(* typed at its prompt.                                                    *)
(***************************************************************************)
SectionNames == {"SSTCore", "a", "b"}

ModelNames == {"a", "b"}

Section(name) == [kind |-> "section", name |-> name]

KeyValue(key) == [kind |-> "keyval", name |-> key]

ConfigLines == {Section(n) : n \in SectionNames} \cup {KeyValue(k) : k \in ModelNames}

ConfigFiles == UNION {[1 .. k -> ConfigLines] : k \in 0 .. MaxLines}

\* The numbers typed at the prompt: up to one more than any list is long.
Numbers == 0 .. (MaxLines + 1)

InputLines == UNION {[1 .. k -> Numbers] : k \in 0 .. 2}

\* What elementsArray[-1] may read: any string.
ReadOutside == ModelNames \cup {""}

\* The models listModels finds from line i on; listing says whether the lines
\* belong to a section other than SSTCore and default.
RECURSIVE listModelsFrom(_, _, _)
listModelsFrom(file, i, listing) ==
    IF i > Len(file)
    THEN <<>>
    ELSE IF file[i].kind = "section"
    THEN listModelsFrom(file, i + 1, file[i].name \notin {"SSTCore", "default"})
    ELSE IF listing
    THEN <<file[i].name>> \o listModelsFrom(file, i + 1, TRUE)
    ELSE listModelsFrom(file, i + 1, FALSE)

\* listModels(listOption::ALL): every model, in the order of the file.
listModels(file) == listModelsFrom(file, 1, FALSE)

\* What listModels prints: each model after the value of count++, from 0.
listModelsOutput(elements) == [k \in 1 .. Len(elements) |-> <<k - 1, elements[k]>>]

\* The lines sstUnregister writes back from line i on: the line "[element]"
\* and the line after it are dropped.
RECURSIVE sstUnregisterFrom(_, _, _)
sstUnregisterFrom(file, element, i) ==
    IF i > Len(file)
    THEN <<>>
    ELSE IF file[i] = Section(element)
    THEN sstUnregisterFrom(file, element, i + 2)
    ELSE <<file[i]>> \o sstUnregisterFrom(file, element, i + 1)

sstUnregister(file, element) == sstUnregisterFrom(file, element, 1)

\* The numbers pushed to elementsToRemove before the first one the check
\* rejects.
RECURSIVE PushedFrom(_, _, _)
PushedFrom(line, i, size) ==
    IF i > Len(line) \/ line[i] > size
    THEN <<>>
    ELSE <<line[i]>> \o PushedFrom(line, i + 1, size)

\* sstUnregisterMultiple up to its last loop: the listing, the prompt and
\* the check of the numbers typed.
sstUnregisterMultiple(line) ==
    /\ regPc # "remove"
    /\ runs < MaxRuns
    /\ runs' = runs + 1
    /\ LET elements == listModels(cfgFile)
           pushed == PushedFrom(line, 1, Len(elements))
       IN  /\ elementsArray' = elements
           /\ displayed' = listModelsOutput(elements)
           /\ IF Len(elements) # 0
              THEN /\ elementsToRemove' = pushed
                   /\ regPc' = IF Len(pushed) < Len(line) THEN "exited"
                               ELSE IF Len(pushed) = 0 THEN "idle"
                               ELSE "remove"
              ELSE /\ elementsToRemove' = <<>>
                   /\ regPc' = "idle"
    /\ removeIndex' = 0
    /\ unregistered' = <<>>
    /\ UNCHANGED <<cfgFile, histVars, syncVars, queueVars, clockVars, setupVars>>

\* The index the last loop reads elementsArray at, counted from 0.
RemoveAt == elementsToRemove[removeIndex + 1] - 1

\* One iteration of the last loop: sstUnregister(elementsArray[...]).  A read
\* outside elementsArray yields any string.
sstUnregisterNext(element) ==
    /\ regPc = "remove"
    /\ IF RemoveAt \in 0 .. (Len(elementsArray) - 1)
       THEN element = elementsArray[RemoveAt + 1]
       ELSE element \in ReadOutside
    /\ cfgFile' = sstUnregister(cfgFile, element)
    /\ unregistered' = Append(unregistered, element)
    /\ removeIndex' = removeIndex + 1
    /\ regPc' = IF removeIndex + 1 = Len(elementsToRemove) THEN "idle" ELSE "remove"
    /\ UNCHANGED <<displayed, elementsArray, elementsToRemove, runs, histVars, syncVars,
                   queueVars, clockVars, setupVars>>

\* A read outside elementsArray may also end the process.
sstUnregisterFault ==
    /\ regPc = "remove"
    /\ RemoveAt \notin 0 .. (Len(elementsArray) - 1)
    /\ regPc' = "fault"
    /\ UNCHANGED <<cfgFile, displayed, elementsArray, elementsToRemove, removeIndex,
                   unregistered, runs, histVars, syncVars, queueVars, clockVars, setupVars>>

NextRegister ==
    \/ \E line \in InputLines : sstUnregisterMultiple(line)
    \/ \E element \in ReadOutside : sstUnregisterNext(element)
    \/ sstUnregisterFault

InitRegister ==
    /\ SyncConstructed
    /\ QueueConstructed
    /\ ClockConstructed
    /\ SetupConstructed
    /\ currentPriority = CLOCKPRIORITY
    /\ HistogramStatistic(0, 1, 1)
    /\ \E file \in ConfigFiles : RegisterStart(file)

\* Runs of sst-register -m on any configuration file.
SpecRegister == InitRegister /\ [][NextRegister]_vars

(***************************************************************************)
(* Derived history.                                                        *)
(***************************************************************************)
\* Every event that was sent across a partition boundary.
CrossEvents == UNION {SeqSet(appended[p][i]) : p \in Threads, i \in Threads}

\* The ids of the events thread p's before() has sent on their delivery link.
DeliveredTo(p) == UNION {{sent[p][i][k] : k \in 1 .. Len(sent[p][i])} : i \in Threads}

\* Whether the event with this id is, or has been, in thread p's Activity Queue.
ReachedVortex(p, id) == (\E a \in timeVortex[p] : a.id = id) \/ id \in executed[p]

\* The number of before() calls, and of after() calls, thread p has completed.
DrainsDone(p) == epochs[p] + (IF pc[p] \in {"wait1", "after", "wait2"} THEN 1 ELSE 0)

AftersDone(p) == epochs[p] + (IF pc[p] = "wait2" THEN 1 ELSE 0)

\* The events of queues[p][i] the inner loop of before() has not sent.
NotYetSent(p, i) ==
    IF pc[p] = "before" /\ qi[p] = i
    THEN SubSeq(queues[p][i], vj[p] + 1, Len(queues[p][i]))
    ELSE queues[p][i]

\* Thread p has completed before() in the current epoch and barrier[2] has
\* not released that epoch yet.
ExchangedNotReleased(p) ==
    \/ pc[p] \in {"wait1", "after"}
    \/ pc[p] = "wait2" /\ ~BarrierReleased(p, 2)

(***************************************************************************)
(* C1. Skip-ahead safety: every event sent across a partition boundary     *)
(* whose delivery time is before the nextSyncTime of its destination has   *)
(* been delivered by the destination's before() to the destination's       *)
(* Activity Queue and sits in no link queue.  This holds in every state,   *)
(* so also with the newly computed nextSyncTime at the moment the third    *)
(* barrier, barrier[2], releases.                                          *)
(***************************************************************************)
SkipAheadSafety ==
    \A e \in CrossEvents :
        e.orig < nextSyncTime[e.dst] =>
            /\ e.id \in DeliveredTo(e.dst)
            /\ ReachedVortex(e.dst, e.id)
            /\ \A i \in Threads : e \notin SeqSet(queues[e.dst][i])

\* barrier[2] has just released an epoch in which an event due before the
\* new nextSyncTime was exchanged.
SkipAheadSafetyWitness ==
    /\ \A p \in Threads : pc[p] = "wait2" /\ BarrierReleased(p, 2)
    /\ \E e \in CrossEvents :
          /\ e.orig < nextSyncTime[e.dst]
          /\ \E a \in timeVortex[e.dst] : a.id = e.id

(***************************************************************************)
(* C2. When a thread has returned from execute() of an epoch and is back   *)
(* in its run loop, every thread has completed before() of that epoch, and *)
(* every event a before() took out of a link queue has reached the         *)
(* Activity Queue of its destination.                                      *)
(***************************************************************************)
ExchangeBeforeResume ==
    \A p \in Threads :
        (pc[p] = "run" /\ epochs[p] >= 1) =>
            /\ \A q \in Threads : DrainsDone(q) >= epochs[p]
            /\ \A e \in CrossEvents : e.id \in cleared => ReachedVortex(e.dst, e.id)

\* A thread is back in its run loop after an epoch that exchanged an event.
ExchangeBeforeResumeWitness ==
    \E p \in Threads :
        /\ pc[p] = "run"
        /\ epochs[p] >= 1
        /\ cleared # {}
        /\ \E q \in Threads : pc[q] = "wait2"

(***************************************************************************)
(* C3. The exchange preserves the delivery time: an event sent across a    *)
(* partition boundary for delivery at time T is in the destination's       *)
(* Activity Queue with delivery time T, and the destination's simulated    *)
(* time is T while it executes the event.                                  *)
(***************************************************************************)
DeliveryTimePreserved ==
    \A p \in Threads :
        /\ \A a \in timeVortex[p] : a.src # p => a.time = a.orig
        /\ (cur[p] # NoActivity /\ cur[p].src # p) =>
               (cur[p].time = cur[p].orig /\ currentSimCycle[p] = cur[p].orig)

\* The scenario of the specification, scaled: with maxPeriod = 2 an event
\* sent at time 0 with delay 3 is executed by the other partition at time 3.
DeliveryTimePreservedWitness ==
    \E p \in Threads :
        /\ cur[p] # NoActivity
        /\ cur[p].src # p
        /\ cur[p].orig = InterThreadMinLatency + 1
        /\ currentSimCycle[p] = InterThreadMinLatency + 1

(***************************************************************************)
(* C4 as amended. No thread is in before() until every thread has called   *)
(* wait() on the first barrier, barrier[0], in this epoch, and no thread   *)
(* is in after() until every thread has called wait() on the second        *)
(* barrier, barrier[1], in this epoch.                                     *)
(***************************************************************************)
PhaseGating ==
    \A p \in Threads :
        /\ pc[p] = "before" => \A q \in Threads : waitCalls[q][0] > epochs[p]
        /\ pc[p] = "after" => \A q \in Threads : waitCalls[q][1] > epochs[p]

\* A thread is in after() in the second epoch.
PhaseGatingWitness ==
    \E p \in Threads : pc[p] = "after" /\ epochs[p] >= 1

\* C4 as stated: before() is gated by the second barrier and after() by the
\* third.
PhaseGatingAsStated ==
    \A p \in Threads :
        /\ pc[p] = "before" => \A q \in Threads : waitCalls[q][1] > epochs[p]
        /\ pc[p] = "after" => \A q \in Threads : waitCalls[q][2] > epochs[p]

(***************************************************************************)
(* C5. Agreement: two threads that have completed the same number of       *)
(* after() calls hold the same nextSyncTime; so after barrier[2] releases  *)
(* an epoch, all threads hold the same value.                              *)
(***************************************************************************)
NextSyncAgreement ==
    \A p \in Threads, q \in Threads :
        AftersDone(p) = AftersDone(q) => nextSyncTime[p] = nextSyncTime[q]

\* barrier[2] has released an epoch in which the threads' own next activity
\* times differ.
NextSyncAgreementWitness ==
    /\ \A p \in Threads : pc[p] = "wait2" /\ BarrierReleased(p, 2)
    /\ \E p \in Threads, q \in Threads :
          /\ NextActivityTime(p) < NextActivityTime(q)
          /\ NextActivityTime(q) < MAX_SIMTIME_T
    /\ \A p \in Threads : nextSyncTime[p] # InterThreadMinLatency

(***************************************************************************)
(* C6 as amended. After after(), and until barrier[2] releases the epoch,  *)
(* nextSyncTime is the greater of m and m + maxPeriod (modulo the width of *)
(* SimTime_t), where m is the minimum next activity time after the         *)
(* exchange.                                                               *)
(***************************************************************************)
AfterComputation ==
    \A p \in Threads :
        (pc[p] = "wait2" /\ ~BarrierReleased(p, 2)) =>
            LET m == LocalMinimumNextActivityTime
                mPlus == (m + my_max_period[p]) % SimTimeModulus
            IN  nextSyncTime[p] = IF m > mPlus THEN m ELSE mPlus

\* A thread has run after() in an epoch whose exchange lowered the minimum
\* next activity time.
AfterComputationWitness ==
    \E p \in Threads :
        /\ pc[p] = "wait2"
        /\ ~BarrierReleased(p, 2)
        /\ LocalMinimumNextActivityTime < minAtStart
        /\ nextSyncTime[p] = LocalMinimumNextActivityTime + my_max_period[p]

\* C6 as stated: the sum (modulo the width of SimTime_t) uses the minimum
\* next activity time of the start of the epoch, when barrier[0] released.
AfterComputationAsStated ==
    \A p \in Threads :
        (pc[p] = "wait2" /\ ~BarrierReleased(p, 2)) =>
            LET m == LocalMinimumNextActivityTime
                m0Plus == (minAtStart + my_max_period[p]) % SimTimeModulus
            IN  nextSyncTime[p] = IF m > m0Plus THEN m ELSE m0Plus

(***************************************************************************)
(* C7. While a thread is in before(), draining its link queues, no other   *)
(* thread is in its run loop, the only place that appends to them.         *)
(***************************************************************************)
NoAppendDuringDrain ==
    \A p \in Threads, q \in Threads :
        (p # q /\ pc[p] = "before") => pc[q] # "run"

\* A thread is in the middle of draining a queue: one event sent, one to go.
NoAppendDuringDrainWitness ==
    \E p \in Threads :
        pc[p] = "before" /\ vj[p] = 1 /\ Len(queues[p][qi[p]]) = 2

(***************************************************************************)
(* C8. From the completion of a thread's before() until barrier[2]         *)
(* releases the epoch, every link queue the thread owns is empty.          *)
(***************************************************************************)
DrainedAfterExchange ==
    \A p \in Threads :
        ExchangedNotReleased(p) => \A i \in Threads : Len(queues[p][i]) = 0

\* A thread has just completed a before() that drained an event.
DrainedAfterExchangeWitness ==
    \E p \in Threads :
        /\ pc[p] = "wait1"
        /\ \E a \in timeVortex[p] : a.src # p /\ a.id \in cleared

(***************************************************************************)
(* C9. For every link queue, the events before() has sent from it,         *)
(* followed by the events of it that before() has not reached yet, are the *)
(* events appended to it, in the order they were appended: nothing is      *)
(* lost, duplicated or reordered.                                          *)
(* Every event sent is then in the owner's Activity Queue until it is      *)
(* executed.                                                               *)
(***************************************************************************)
DrainInAppendOrder ==
    \A p \in Threads, i \in Threads :
        /\ sent[p][i] \o SeqIds(NotYetSent(p, i)) = SeqIds(appended[p][i])
        /\ \A k \in 1 .. Len(sent[p][i]) : ReachedVortex(p, sent[p][i][k])

\* Two events appended to the same queue have been sent.
DrainInAppendOrderWitness ==
    \E p \in Threads, i \in Threads : Len(sent[p][i]) >= 2 /\ queues[p][i] = <<>>

(***************************************************************************)
(* C10. Barrier safety: a thread has returned from wait() on a barrier at  *)
(* most as often as every participant has called wait() on it.             *)
(***************************************************************************)
BarrierSafety ==
    \A b \in Barriers, p \in Threads, q \in Threads :
        waitReturns[p][b] <= waitCalls[q][b]

\* A thread has returned from the second generation of a barrier.
BarrierSafetyWitness ==
    \E b \in Barriers, p \in Threads : waitReturns[p][b] >= 2

(***************************************************************************)
(* C11. Barrier reuse: a thread blocked in its k-th wait() on a barrier is *)
(* released exactly when every participant has made its k-th call of       *)
(* wait() on it.  A thread that re-enters early is not released before     *)
(* that, its re-entry does not take the release away from a waiter of the  *)
(* generation before, and a generation starts only with all N arrivals:    *)
(* the barrier's generation is the number of calls every participant has   *)
(* made, and its count the arrivals beyond those.                          *)
(***************************************************************************)
BarrierReuse ==
    \A b \in Barriers :
        /\ \A p \in Threads :
              pc[p] = WaitPc(b) =>
                  (BarrierReleased(p, b) <=> \A q \in Threads : waitCalls[q][b] >= waitCalls[p][b])
        /\ \A q \in Threads : barrier[b].generation <= waitCalls[q][b]
        /\ \E q \in Threads : barrier[b].generation = waitCalls[q][b]
        /\ barrier[b].count = Cardinality({q \in Threads : waitCalls[q][b] > barrier[b].generation})

\* A thread released from the first generation has called wait() again
\* while a waiter of the first generation has not returned yet.
BarrierReuseWitness ==
    \E b \in Barriers, p \in Threads, q \in Threads :
        /\ pc[p] = WaitPc(b) /\ waitCalls[p][b] = 2 /\ ~BarrierReleased(p, b)
        /\ pc[q] = WaitPc(b) /\ waitCalls[q][b] = 1 /\ BarrierReleased(q, b)

(***************************************************************************)
(* C12. Universal participation: once a partition has stopped, no          *)
(* partition completes the epoch the stopped one is in or has not reached, *)
(* and a partition blocked in a wait() the stopped one has not called is   *)
(* not released.  A stopped partition stays stopped, so this holds from    *)
(* then on.                                                                *)
(***************************************************************************)
UniversalParticipation ==
    \A q \in Threads :
        pc[q] = "halted" =>
            \A p \in Threads :
                /\ epochs[p] <= epochs[q]
                /\ \A b \in Barriers :
                      (pc[p] = WaitPc(b) /\ waitCalls[q][b] < waitCalls[p][b]) =>
                          ~BarrierReleased(p, b)

\* A partition stopped in its second epoch, after the exchange, and another
\* is blocked at the last barrier of that epoch.
UniversalParticipationWitness ==
    \E p \in Threads, q \in Threads :
        /\ pc[q] = "halted" /\ epochs[q] = 1 /\ waitCalls[q][1] = 2
        /\ pc[p] = "wait2" /\ epochs[p] = 1 /\ ~BarrierReleased(p, 2)

(***************************************************************************)
(* C13. Activity Queue ordering: the Activities popped since the last      *)
(* insert come in non-decreasing order of delivery time, then of priority, *)
(* and those with equal time and priority in the order of their insertion; *)
(* every Activity still in the queue comes after the last one popped.      *)
(***************************************************************************)
PopOrder ==
    LET Before(a, b) ==
            /\ a.time <= b.time
            /\ a.time = b.time => a.priority <= b.priority
            /\ (a.time = b.time /\ a.priority = b.priority) => a.seq < b.seq
    IN  /\ \A i \in 1 .. Len(popped), j \in 1 .. Len(popped) :
              i < j => Before(popped[i], popped[j])
        /\ \A c \in activityQueue :
              popped # <<>> => Before(popped[Len(popped)], c)

\* Three Activities are popped: two that tie on time and priority, after
\* one of a smaller priority value that was inserted last.
PopOrderWitness ==
    /\ Len(popped) = 3
    /\ popped[1].seq = 3
    /\ popped[1].priority < popped[2].priority
    /\ popped[2].time = popped[3].time
    /\ popped[2].priority = popped[3].priority

(***************************************************************************)
(* C14 as amended. A handler registered at time zero on a Clock of period  *)
(* P is invoked at the times P, 2P, 3P, ... with the cycle numbers 1, 2,   *)
(* 3, ...: its n-th invocation is at time n * P with cycle n, as long as   *)
(* it stays registered.                                                    *)
(***************************************************************************)
ClockCycleMonotonic ==
    \A r \in 1 .. Len(regLog) :
        (regLog[r].at = 0 /\ regLog[r].n >= 1) =>
            /\ regLog[r].cycle = regLog[r].n
            /\ regLog[r].time = regLog[r].n * ClockPeriod

\* A handler registered at time zero has been invoked three times and stays.
ClockCycleMonotonicWitness ==
    \E r \in 1 .. Len(regLog) :
        /\ regLog[r].at = 0
        /\ regLog[r].n = 3
        /\ ~regLog[r].done
        /\ \E i \in 1 .. Len(staticHandlerMap) : staticHandlerMap[i].reg = r

\* C14 as stated: the invocations are at the times 0, P, 2P, ..., the n-th
\* at time (n - 1) * P, with the cycle numbers 1, 2, 3, ...
ClockCycleMonotonicAsStated ==
    \A r \in 1 .. Len(regLog) :
        (regLog[r].at = 0 /\ regLog[r].n >= 1) =>
            /\ regLog[r].cycle = regLog[r].n
            /\ regLog[r].time = (regLog[r].n - 1) * ClockPeriod

(***************************************************************************)
(* C15. In a firing of the Clock the entries invoked so far are the first  *)
(* entries of the handler collection as it was when the pass started, in   *)
(* that order, each once and with the current cycle; the entries from      *)
(* sop_iter on are the rest of them; and when the pass is over every entry *)
(* has been invoked.                                                       *)
(***************************************************************************)
PassInvokesAll ==
    /\ Len(passInvoked) <= Len(passStart)
    /\ passInvoked = SubSeq(passStart, 1, Len(passInvoked))
    /\ \A k \in 1 .. Len(passInvoked) : regLog[passInvoked[k].reg].cycle = currentCycle
    /\ clockPc = "pass" =>
           SubSeq(staticHandlerMap, sop_iter, Len(staticHandlerMap)) =
               SubSeq(passStart, Len(passInvoked) + 1, Len(passStart))
    /\ (clockPc = "idle" /\ lastCall.op = "execute") => passInvoked = passStart

\* A pass over two handlers is over, and the first of them was removed in it.
PassInvokesAllWitness ==
    /\ clockPc = "idle"
    /\ lastCall.op = "execute"
    /\ Len(passStart) = 2
    /\ Len(staticHandlerMap) = 1
    /\ staticHandlerMap[1] = passStart[2]
    /\ regLog[passStart[1].reg].done

(***************************************************************************)
(* C16. Self-deregistration: a registration whose handler has returned     *)
(* true is not in the Clock's handler collection and is not invoked again. *)
(* A handler that is registered again, or more than once, is invoked for   *)
(* its other registrations.                                                *)
(***************************************************************************)
SelfDeregistration ==
    \A r \in 1 .. Len(regLog) :
        /\ ~regLog[r].again
        /\ regLog[r].done =>
               \A i \in 1 .. Len(staticHandlerMap) : staticHandlerMap[i].reg # r

\* A handler returned true on its second invocation; it was registered
\* again, and the Clock has fired for the new registration only.
SelfDeregistrationWitness ==
    \E r \in 1 .. Len(regLog), r2 \in 1 .. Len(regLog) :
        /\ regLog[r].done
        /\ regLog[r].n = 2
        /\ regLog[r2].handler = regLog[r].handler
        /\ r2 > r
        /\ regLog[r2].at >= regLog[r].time
        /\ regLog[r2].n >= 1

(***************************************************************************)
(* C17 as amended. A firing that invokes handlers inserts the Clock again  *)
(* one period ahead, also when the only handler removed itself in it; the  *)
(* next firing, finding no handler, invokes nothing, clears the scheduled  *)
(* flag and does not insert the Clock.  A Clock that is not scheduled is   *)
(* not in the Activity Queue and has no handler.                           *)
(***************************************************************************)
IdleClockDropsOut ==
    /\ (clockPc = "idle" /\ lastCall.op = "execute") =>
           IF passStart = <<>>
           THEN ~scheduled /\ ~ClockInQueue /\ passInvoked = <<>>
           ELSE /\ scheduled
                /\ \E e \in ClockEntries :
                      /\ ClockEntries = {e}
                      /\ e.time = regLog[passStart[1].reg].time + ClockPeriod
    /\ (clockPc = "idle" /\ ~scheduled) => (~ClockInQueue /\ staticHandlerMap = <<>>)

\* The only handler removed itself, and the firing after that has dropped
\* the Clock out of the Activity Queue.
IdleClockDropsOutWitness ==
    /\ clockPc = "idle"
    /\ lastCall.op = "execute"
    /\ passStart = <<>>
    /\ Len(regLog) = 1
    /\ regLog[1].done
    /\ ~ClockInQueue

\* C17 as stated: the firing in which the only handler removes itself does
\* not insert the Clock again.
IdleClockDropsOutAsStated ==
    (/\ clockPc = "idle"
     /\ lastCall.op = "execute"
     /\ Len(passStart) = 1
     /\ regLog[passStart[1].reg].done
     /\ staticHandlerMap = <<>>) => ~ClockInQueue

(***************************************************************************)
(* C18 as amended. Between the operations on a Clock, the Clock is in the  *)
(* Activity Queue if and only if its scheduled flag is true, and a Clock   *)
(* with at least one handler is in the Activity Queue.  (A Clock whose     *)
(* handlers have all been removed stays there until its next firing.)      *)
(***************************************************************************)
ClockPresence ==
    clockPc = "idle" =>
        /\ ClockInQueue <=> scheduled
        /\ staticHandlerMap # <<>> => (ClockInQueue /\ scheduled)

\* The last handler has been unregistered after the Clock has fired for it.
ClockPresenceWitness ==
    /\ clockPc = "idle"
    /\ lastCall.op = "unregisterHandler"
    /\ lastCall.empty
    /\ ClockInQueue
    /\ \E r \in 1 .. Len(regLog) : regLog[r].n >= 1

\* C18 as stated: in the Activity Queue if and only if there is a handler
\* and the scheduled flag is true.
ClockPresenceAsStated ==
    clockPc = "idle" =>
        (ClockInQueue <=> (staticHandlerMap # <<>> /\ scheduled))

(***************************************************************************)
(* C19 as amended. registerHandler appends the handler.  On a Clock that   *)
(* is not scheduled, called at time t, it inserts the Clock once, with the *)
(* Clock's priority, at a multiple of the period that is the next one      *)
(* after t, or t itself exactly when t is a period boundary other than     *)
(* zero and the Activity being executed has a smaller priority value than  *)
(* the Clock, and it sets the scheduled flag.  On a Clock that is          *)
(* scheduled it leaves the Clock's place in the Activity Queue alone.      *)
(***************************************************************************)
RegisterSchedules ==
    lastCall.op = "registerHandler" =>
        /\ Len(staticHandlerMap) = lastCall.lenBefore + 1
        /\ staticHandlerMap[Len(staticHandlerMap)] =
               [handler |-> regLog[Len(regLog)].handler, reg |-> Len(regLog)]
        /\ scheduled
        /\ lastCall.wasScheduled => ClockEntries = lastCall.clockBefore
        /\ ~lastCall.wasScheduled =>
               \E e \in ClockEntries :
                   /\ ClockEntries = {e}
                   /\ e.priority = CLOCKPRIORITY
                   /\ e.time % ClockPeriod = 0
                   /\ e.time >= lastCall.now
                   /\ e.time <= lastCall.now + ClockPeriod
                   /\ e.time = lastCall.now <=>
                          (/\ lastCall.now % ClockPeriod = 0
                           /\ lastCall.now # 0
                           /\ lastCall.priority < CLOCKPRIORITY)

\* A handler was registered on an unscheduled Clock at a period boundary
\* after time zero, and the Clock was inserted one period later.
RegisterSchedulesWitness ==
    /\ lastCall.op = "registerHandler"
    /\ ~lastCall.wasScheduled
    /\ lastCall.now = ClockPeriod
    /\ \E e \in ClockEntries : e.time = 2 * ClockPeriod

\* C19 as stated: the Clock is inserted at the next multiple of the period
\* at or after t, and at one period for t = 0.
RegisterSchedulesAsStated ==
    (lastCall.op = "registerHandler" /\ ~lastCall.wasScheduled) =>
        \E e \in ClockEntries :
            /\ ClockEntries = {e}
            /\ e.priority = CLOCKPRIORITY
            /\ scheduled
            /\ e.time = IF lastCall.now = 0
                        THEN ClockPeriod
                        ELSE ((lastCall.now + ClockPeriod - 1) \div ClockPeriod) * ClockPeriod

(***************************************************************************)
(* C20 as amended. A Clock is inserted for delivery at the current time    *)
(* only when the current time is a period boundary, is not zero, and the   *)
(* Activity being executed has a strictly smaller priority value than the  *)
(* Clock.                                                                  *)
(***************************************************************************)
TieBreak ==
    (/\ lastCall.op = "registerHandler"
     /\ ~lastCall.wasScheduled
     /\ \E e \in ClockEntries : e.time = lastCall.now) =>
        /\ lastCall.now % ClockPeriod = 0
        /\ lastCall.now # 0
        /\ lastCall.priority < CLOCKPRIORITY

\* The Clock has been inserted at the current time.
TieBreakWitness ==
    /\ lastCall.op = "registerHandler"
    /\ ~lastCall.wasScheduled
    /\ lastCall.now = ClockPeriod
    /\ \E e \in ClockEntries : e.time = lastCall.now

\* C20 as stated: the Clock is inserted at the current time only when an
\* Activity of the same time, the one being executed or one in the queue,
\* has a strictly greater priority value than the Clock.
TieBreakAsStated ==
    (/\ lastCall.op = "registerHandler"
     /\ ~lastCall.wasScheduled
     /\ \E e \in ClockEntries : e.time = lastCall.now) =>
        /\ lastCall.now % ClockPeriod = 0
        /\ lastCall.now # 0
        /\ lastCall.priority > CLOCKPRIORITY \/ lastCall.laterPending

(***************************************************************************)
(* C21.  Two-phase link registration: registerLink(name, link) with no     *)
(* entry stored under name stores name -> link and changes no Link's       *)
(* delivery info; with an entry stored under name it sets the delivery     *)
(* info of link to the stored Link, changes that of no other Link, and     *)
(* removes the entry.                                                      *)
(***************************************************************************)
TwoPhaseRegistration ==
    [][\A p \in Threads, n \in LinkNames :
          (/\ Len(regCalls'[p][n]) = Len(regCalls[p][n]) + 1
           /\ regCalls'[p][n][Len(regCalls'[p][n])] = <<p, n>>) =>
              IF link_map[p][n] = NoLink
              THEN /\ link_map'[p][n] = <<p, n>>
                   /\ delivery_info' = delivery_info
              ELSE /\ link_map'[p][n] = NoLink
                   /\ delivery_info' =
                          [delivery_info EXCEPT ![<<p, n>>] = link_map[p][n]]]_vars

\* A second registration, by registerLink, has matched the first and the
\* table holds no entry for the name.
TwoPhaseRegistrationWitness ==
    \E p \in Threads, n \in LinkNames :
        /\ Len(regCalls[p][n]) = 2
        /\ regCalls[p][n][2] = <<p, n>>
        /\ link_map[p][n] = NoLink
        /\ delivery_info[<<p, n>>] = regCalls[p][n][1]

(***************************************************************************)
(* C22.  Link matching: once the Links of partitions p and q for a name    *)
(* have been registered, each by registerLink on its own ThreadSync and by *)
(* registerRemoteLink on the other one, in any order, and no other         *)
(* registrations under the name have met, the delivery info of each of the *)
(* two Links names the other Link.                                         *)
(***************************************************************************)
RegisteredFromBoth(p, q, n) ==
    /\ regCalls[p][n] \in {<< <<p, n>>, <<q, n>> >>, << <<q, n>>, <<p, n>> >>}
    /\ regCalls[q][n] \in {<< <<p, n>>, <<q, n>> >>, << <<q, n>>, <<p, n>> >>}
    /\ \A r \in Threads \ {p, q} : Len(regCalls[r][n]) <= 1

LinkMatching ==
    \A p \in Threads, q \in Threads, n \in LinkNames :
        (p # q /\ RegisteredFromBoth(p, q, n)) =>
            /\ delivery_info[<<p, n>>] = <<q, n>>
            /\ delivery_info[<<q, n>>] = <<p, n>>

\* Both partitions have registered, and on the ThreadSync of p the remote
\* Link arrived before the local one.
LinkMatchingWitness ==
    \E p \in Threads, q \in Threads, n \in LinkNames :
        /\ p # q
        /\ RegisteredFromBoth(p, q, n)
        /\ regCalls[p][n] = << <<q, n>>, <<p, n>> >>
        /\ regCalls[q][n] = << <<p, n>>, <<q, n>> >>

(***************************************************************************)
(* C23.  Link setup is commutative in arrival order: for a name with no    *)
(* entry stored, registerLink(name, L) followed by                         *)
(* registerRemoteLink(tid, name, R) leaves the same link_map, the same     *)
(* delivery info of every Link and the same returned queue as the two      *)
(* calls in the opposite order.                                            *)
(***************************************************************************)
LocalThenRemote(p, q, n) ==
    LET r == registerLinkOn(link_map[p], delivery_info, n, <<p, n>>)
    IN  registerRemoteLinkOn(r.map, r.info, n, <<q, n>>)

RemoteThenLocal(p, q, n) ==
    LET r == registerRemoteLinkOn(link_map[p], delivery_info, n, <<q, n>>)
    IN  registerLinkOn(r.map, r.info, n, <<p, n>>)

LinkSetupCommutes ==
    \A p \in Threads, q \in Threads, n \in LinkNames :
        (p # q /\ link_map[p][n] = NoLink) =>
            LocalThenRemote(p, q, n) = RemoteThenLocal(p, q, n)

\* One ThreadSync has set up two links, one in each order of arrival.
LinkSetupCommutesWitness ==
    \E p \in Threads, q \in Threads, n \in LinkNames, m \in LinkNames :
        /\ p # q
        /\ regCalls[p][n] = << <<p, n>>, <<q, n>> >>
        /\ regCalls[p][m] = << <<q, m>>, <<p, m>> >>
        /\ delivery_info[<<p, n>>] = <<q, n>>
        /\ delivery_info[<<p, m>>] = <<q, m>>
        /\ link_map[p][n] = NoLink
        /\ link_map[p][m] = NoLink

SameSideNeverMatches ==
    \A p \in Threads, n \in LinkNames :
        (/\ linkState[p] # "open"
         /\ Len(regCalls[p][n]) = 2
         /\ regCalls[p][n][1] = regCalls[p][n][2]) =>
            linkState[p] = "fatal"

RECURSIVE WithoutFirst(_, _)
WithoutFirst(map, h) ==
    IF map = <<>>
    THEN <<>>
    ELSE IF Head(map).handler = h
         THEN Tail(map)
         ELSE <<Head(map)>> \o WithoutFirst(Tail(map), h)

UnregisterFrame ==
    [][\A h \in Handlers :
          unregisterHandler(h) =>
              /\ staticHandlerMap' = WithoutFirst(staticHandlerMap, h)
              /\ (\A i \in 1 .. Len(staticHandlerMap) : staticHandlerMap[i].handler # h) =>
                     staticHandlerMap' = staticHandlerMap
              /\ lastCall'.empty = (staticHandlerMap' = <<>>)
              /\ scheduled' = scheduled
              /\ currentCycle' = currentCycle
              /\ activityQueue' = activityQueue]_vars

\* A handler was registered twice and unregistered once: its second entry
\* is left, and the Clock is still scheduled and in the queue.
UnregisterFrameWitness ==
    /\ lastCall.op = "unregisterHandler"
    /\ ~lastCall.empty
    /\ Len(regLog) = 2
    /\ regLog[1].handler = regLog[2].handler
    /\ Len(staticHandlerMap) = 1
    /\ staticHandlerMap[1].reg = 2
    /\ scheduled
    /\ ClockInQueue

(***************************************************************************)
(* C29.  getDataSize() reports the outstanding cross-partition payload: it *)
(* is non-zero whenever Activities are buffered in the link queues of the  *)
(* ThreadSync, and zero when all of them are empty.                        *)
(***************************************************************************)
DataSizeReportsVolume ==
    \A p \in Threads :
        (getDataSize(p) # 0) <=> (\E i \in Threads : queues[p][i] # <<>>)

(***************************************************************************)
(* C30.  Epoch completion: under fair scheduling a partition that has      *)
(* entered execute() for an epoch eventually returns from it, with every   *)
(* one of the three barriers called and passed once more, also when the    *)
(* epochs follow each other.                                               *)
(***************************************************************************)
EpochCompletion ==
    \A p \in Threads, k \in 0 .. (MaxEpochs - 1) :
        (pc[p] # "run" /\ epochs[p] = k) ~>
            (/\ pc[p] = "run"
             /\ epochs[p] = k + 1
             /\ \A b \in Barriers : waitCalls[p][b] = k + 1 /\ waitReturns[p][b] = k + 1)

\* Every partition has returned from its last epoch.
EpochCompletionWitness ==
    \A p \in Threads :
        /\ pc[p] = "run"
        /\ epochs[p] = MaxEpochs
        /\ \A b \in Barriers : waitReturns[p][b] = MaxEpochs

(***************************************************************************)
(* C31.  Synchronization times strictly advance: nextSyncTime is the       *)
(* period until the first epoch has computed it, and with a period greater *)
(* than zero and a sum that does not wrap, the nextSyncTime after()        *)
(* computes is strictly greater than the simulated time the epoch runs at, *)
(* which is the nextSyncTime of before.                                    *)
(***************************************************************************)
SyncTimesAdvance ==
    /\ [](\A p \in Threads :
             (epochs[p] = 0 /\ pc[p] \in {"run", "wait0", "before", "wait1", "after"}) =>
                 nextSyncTime[p] = my_max_period[p])
    /\ [][\A p \in Threads :
             (/\ after(p)
              /\ my_max_period[p] > 0
              /\ LocalMinimumNextActivityTime + my_max_period[p] < SimTimeModulus) =>
                 /\ currentSimCycle[p] = nextSyncTime[p]
                 /\ nextSyncTime'[p] > currentSimCycle[p]]_vars

\* A second epoch has computed a nextSyncTime that did not wrap.
SyncTimesAdvanceWitness ==
    \E p \in Threads :
        /\ pc[p] = "wait2"
        /\ epochs[p] >= 1
        /\ nextSyncTime[p] < MAX_SIMTIME_T
        /\ nextSyncTime[p] > currentSimCycle[p]
        /\ currentSimCycle[p] > my_max_period[p]

(***************************************************************************)
(* C32.  No wraparound in the exchange: every event in a link queue of a   *)
(* thread that is in before() has a delivery time greater than or equal to *)
(* the thread's current cycle, so that the delay before() computes is the  *)
(* plain difference of the two and has not wrapped.                        *)
(***************************************************************************)
NoWraparound ==
    \A p \in Threads :
        pc[p] = "before" =>
            \A i \in Threads : \A k \in 1 .. Len(queues[p][i]) :
                /\ queues[p][i][k].time >= currentSimCycle[p]
                /\ beforeDelay(p, queues[p][i][k]) =
                       queues[p][i][k].time - currentSimCycle[p]

\* before() finds an event that is due at the very cycle of the exchange,
\* and another one that is due later.
NoWraparoundWitness ==
    \E p \in Threads, i \in Threads :
        /\ pc[p] = "before"
        /\ Len(queues[p][i]) = 2
        /\ \E k \in 1 .. 2 : queues[p][i][k].time = currentSimCycle[p]
        /\ \E k \in 1 .. 2 : queues[p][i][k].time > currentSimCycle[p]

(***************************************************************************)
(* C33.  Overflow guard in after(): nextSyncTime is never smaller than the *)
(* local minimum next activity time; it is that minimum when the sum of    *)
(* the minimum and the period wraps modulo the width of SimTime_t, and the *)
(* sum otherwise.  This holds of the value after() has just computed, and  *)
(* of the computation for every minimum and every period.                  *)
(***************************************************************************)
\* The guard of the computation, for every minimum and every period.
OverflowGuardComputed ==
    \A nextmin \in 0 .. MAX_SIMTIME_T, period \in 0 .. MAX_SIMTIME_T :
        /\ afterNextSyncTime(nextmin, period) >= nextmin
        /\ afterNextSyncTime(nextmin, period) =
               IF nextmin + period >= SimTimeModulus THEN nextmin ELSE nextmin + period

OverflowGuard ==
    /\ \A p \in Threads :
           (pc[p] = "wait2" /\ ~BarrierReleased(p, 2)) =>
               /\ nextSyncTime[p] >= LocalMinimumNextActivityTime
               /\ nextSyncTime[p] =
                      IF LocalMinimumNextActivityTime + my_max_period[p] >= SimTimeModulus
                      THEN LocalMinimumNextActivityTime
                      ELSE LocalMinimumNextActivityTime + my_max_period[p]
    /\ OverflowGuardComputed

\* No Activity is pending after the exchange: the sum wrapped and
\* nextSyncTime is MAX_SIMTIME_T.
OverflowGuardWitness ==
    \E p \in Threads :
        /\ pc[p] = "wait2"
        /\ ~BarrierReleased(p, 2)
        /\ LocalMinimumNextActivityTime = MAX_SIMTIME_T
        /\ (LocalMinimumNextActivityTime + my_max_period[p]) % SimTimeModulus
               < LocalMinimumNextActivityTime
        /\ nextSyncTime[p] = MAX_SIMTIME_T

(***************************************************************************)
(* C34.  No double scheduling: the Clock is in the Activity Queue at most  *)
(* once, and its scheduled flag is true exactly when it is in the Activity *)
(* Queue or Clock::execute is walking its handlers.                        *)
(***************************************************************************)
NoDoubleScheduling ==
    /\ Cardinality(ClockEntries) <= 1
    /\ scheduled <=> (ClockInQueue \/ clockPc = "pass")

\* The handlers were all removed after a firing and a handler has been
\* registered again before the next one: the Clock is in the queue once.
NoDoubleSchedulingWitness ==
    /\ lastCall.op = "registerHandler"
    /\ lastCall.wasScheduled
    /\ lastCall.lenBefore = 0
    /\ \E r \in 1 .. Len(regLog) : regLog[r].n >= 1
    /\ Cardinality(ClockEntries) = 1
    /\ scheduled

(***************************************************************************)
(* C35.  The cycle number follows simulated time: the cycle number a       *)
(* handler is invoked with at simulated time T is T divided by the period. *)
(***************************************************************************)
CycleFollowsTime ==
    \A r \in 1 .. Len(regLog) :
        regLog[r].n >= 1 => regLog[r].cycle = regLog[r].time \div ClockPeriod

(***************************************************************************)
(* C36.  Histogram binned-item count: after any sequence of                *)
(* addData_impl_Ntimes(N, value) calls on a histogram that is not          *)
(* autoscaling, getItemsBinnedCount() equals the sum of all bin counts and *)
(* is at most the collection count.                                        *)
(***************************************************************************)
RECURSIVE SumOfBins(_)
SumOfBins(bins) ==
    IF bins = {}
    THEN 0
    ELSE LET b == CHOOSE x \in bins : TRUE IN b[2] + SumOfBins(bins \ {b})

ItemsBinnedCount ==
    /\ getItemsBinnedCount = SumOfBins(m_binsMap)
    /\ getItemsBinnedCount <= getStatCollectionCount

(***************************************************************************)
(* C37.  sst-register multi-unregister selection: every number accepted by *)
(* sstUnregisterMultiple refers to a model in the displayed list, and      *)
(* entering number k unregisters exactly the model listModels displayed    *)
(* with number k.                                                          *)
(***************************************************************************)
MultiUnregisterSelection ==
    /\ \A i \in 1 .. Len(elementsToRemove) :
          \E d \in SeqSet(displayed) : d[1] = elementsToRemove[i]
    /\ \A i \in 1 .. Len(unregistered) :
          <<elementsToRemove[i], unregistered[i]>> \in SeqSet(displayed)

====
